---- MODULE Spec2Model ----
(***************************************************************************)
(* Word (.docx) to UDF converter: the serializer (UdfGenerator), the       *)
(* parser's outcome (DocxParser.parse) and the conversion handler of the   *)
(* page (WordToUdfApp.handleConvert).                                      *)
(*                                                                         *)
(* Strings are sequences of characters, a character is a one-element       *)
(* TLA+ string ("NL" is the newline, "TAB" the tab, "ZWSP" U+200B, "OBJ"   *)
(* U+FFFC, "RULE" the box-drawing rule U+2500).                            *)
(***************************************************************************)
EXTENDS Integers, Sequences, FiniteSets, TLC

VARIABLES
    content,             \* UdfGenerator.content
    elements,            \* UdfGenerator.elements
    currentOffset,       \* UdfGenerator.currentOffset
    collectedFootnotes,  \* UdfGenerator.collectedFootnotes
    document,            \* the elements of the document generate() has iterated over
    pc,                  \* position of generate(): "idle", "loop", "done"
    selectedFile,        \* WordToUdfApp.selectedFile: <<>> is null, <<f>> the file f
    convertedBlob,       \* WordToUdfApp.convertedBlob: <<>> is null, <<b>> the blob b
    outputFilename,      \* WordToUdfApp.outputFilename
    ui,                  \* the classes and flags the handlers set on the page's elements
    conversions,         \* the handleConvert calls made so far, each with its position
    delivered,           \* what downloadBlob was last given: <<>> or <<[blob, filename]>>
    call,                \* the arguments of the helper function under examination
    outcome              \* <<>> before that function is applied, <<r>> once it has returned r

genVars == <<content, elements, currentOffset, collectedFootnotes, document, pc>>

appVars == <<selectedFile, convertedBlob, outputFilename, ui, conversions, delivered>>

fnVars == <<call, outcome>>

vars == <<content, elements, currentOffset, collectedFootnotes, document, pc,
          selectedFile, convertedBlob, outputFilename, ui, conversions, delivered,
          call, outcome>>

-----------------------------------------------------------------------------
(* Bounds of the explored inputs *)

\* top-level block elements of one document
MaxBlocks == 2
\* runs, table rows, table cells and cell paragraphs of one document, counted together
MaxNodes == 3
\* clicks on the convert button that reach handleConvert
MaxConversions == 2
\* generate() calls made on one UdfGenerator
MaxGenerations == 2
\* one-cell tables of one document, where the cells are examined run by run
MaxCellTables == 1
\* tables of one document, where the column grid is examined
MaxGridTables == 1
\* packages parsed by one DocxParser instance
MaxParses == 2

-----------------------------------------------------------------------------
(* Characters and strings *)

Null == "null"

NL == "NL"
TAB == "TAB"
ZWSP == "ZWSP"
OBJ == "OBJ"
SP == " "
RULE == "RULE"

SeparatorLen == 20

RECURSIVE Repeat(_, _)
Repeat(c, n) == IF n = 0 THEN <<>> ELSE <<c>> \o Repeat(c, n - 1)

\* Array.prototype.join('') on an array of strings
RECURSIVE Join(_)
Join(pieces) == IF pieces = <<>> THEN <<>> ELSE Head(pieces) \o Join(Tail(pieces))

separator == Repeat(RULE, SeparatorLen)

-----------------------------------------------------------------------------
(* The document model handed to generate() *)

TextRun(t) == [type |-> "text", text |-> t, data |-> Null, id |-> <<>>, content |-> <<>>]
TabRun == [type |-> "tab", text |-> <<>>, data |-> Null, id |-> <<>>, content |-> <<>>]
ImageRun(d) == [type |-> "image", text |-> <<>>, data |-> d, id |-> <<>>, content |-> <<>>]
BreakRun == [type |-> "break", text |-> <<>>, data |-> Null, id |-> <<>>, content |-> <<>>]
PageBreakRun == [type |-> "pageBreak", text |-> <<>>, data |-> Null, id |-> <<>>, content |-> <<>>]
FootnoteRefRun(n, t) == [type |-> "footnoteRef", text |-> <<>>, data |-> Null, id |-> n, content |-> t]

\* numbering is <<>> (null) or <<[level |-> n, numId |-> id]>>
Paragraph(rs) ==
    [type |-> "paragraph", alignment |-> "left", runs |-> rs, numbering |-> <<>>]

Cell(merge, ps) ==
    [type |-> "cell", paragraphs |-> ps, colspan |-> <<1>>,
     vMergeContinue |-> (merge = "continue"), vMergeStart |-> (merge = "restart")]

Row(cs) == [type |-> "row", cells |-> cs]

Table(rs) == [type |-> "table", rows |-> rs, columnWidths |-> <<>>]

-----------------------------------------------------------------------------
(* Numbers read from attribute text: a number is <<n>>, NaN is <<>> *)

HexDigits ==
    [c \in {"0", "1", "2", "3", "4", "5", "6", "7", "8", "9",
            "a", "b", "c", "d", "e", "f", "A", "B", "C", "D", "E", "F"} |->
        CASE c = "0" -> 0 [] c = "1" -> 1 [] c = "2" -> 2 [] c = "3" -> 3 [] c = "4" -> 4
          [] c = "5" -> 5 [] c = "6" -> 6 [] c = "7" -> 7 [] c = "8" -> 8 [] c = "9" -> 9
          [] c \in {"a", "A"} -> 10 [] c \in {"b", "B"} -> 11 [] c \in {"c", "C"} -> 12
          [] c \in {"d", "D"} -> 13 [] c \in {"e", "E"} -> 14 [] c \in {"f", "F"} -> 15]

DecimalDigits ==
    [c \in {"0", "1", "2", "3", "4", "5", "6", "7", "8", "9"} |-> HexDigits[c]]

\* parseInt(s): the digits of the longest prefix of decimal digits
RECURSIVE parseDigits(_, _)
parseDigits(s, sofar) ==
    IF s = <<>> \/ Head(s) \notin DOMAIN DecimalDigits THEN sofar
    ELSE parseDigits(Tail(s), <<10 * (IF sofar = <<>> THEN 0 ELSE sofar[1])
                                    + DecimalDigits[Head(s)]>>)

negate(n) == IF n = <<>> THEN <<>> ELSE <<0 - n[1]>>

\* parseInt(s) without a radix, for texts that begin with neither blanks nor 0x
parseInt(s) ==
    IF s # <<>> /\ Head(s) = "-" THEN negate(parseDigits(Tail(s), <<>>))
    ELSE IF s # <<>> /\ Head(s) = "+" THEN parseDigits(Tail(s), <<>>)
    ELSE parseDigits(s, <<>>)

-----------------------------------------------------------------------------
(* Elements written to the element list *)

ContentElement(off, len, sz, sup) ==
    [kind |-> "content", startOffset |-> off, length |-> len, size |-> sz, superscript |-> sup]

TabElement(off) ==
    [kind |-> "tab", startOffset |-> off, length |-> 1, size |-> 0, superscript |-> FALSE]

ImageElement(off) ==
    [kind |-> "image", startOffset |-> off, length |-> 1, size |-> 0, superscript |-> FALSE]

PageBreakElement == [kind |-> "page-break"]

\* '<paragraph Alignment="0" LeftIndent="0.0" RightIndent="0.0">...</paragraph>'
PlainParagraphElement(children) ==
    [kind |-> "paragraph", Alignment |-> "0", list |-> <<>>, children |-> children]

alignmentMap(a) ==
    CASE a = "left" -> "0"
      [] a = "center" -> "1"
      [] a = "right" -> "2"
      [] a = "justify" -> "3"
      [] OTHER -> "0"

Attribute(name, value) == [name |-> name, value |-> value]

\* parseInt(numId) % 2 === 0; parseInt(null) and parseInt of a text without digits are
\* NaN, and NaN % 2 is NaN
isBulleted(numId) ==
    /\ numId # <<>>
    /\ parseInt(numId[1]) # <<>>
    /\ parseInt(numId[1])[1] = 2 * (parseInt(numId[1])[1] \div 2)

\* the attributes added under "Handle numbering/bullets"; `${level}` of a number <<n>>
\* or NaN <<>>, `${numId}` of a text <<t>> or null <<>>
listAttributes(numbering) ==
    IF numbering = <<>> THEN <<>>
    ELSE IF isBulleted(numbering[1].numId)
    THEN <<Attribute("Bulleted", <<"true">>),
           Attribute("BulletType", <<"BULLET_TYPE_ELLIPSE">>),
           Attribute("ListLevel", numbering[1].level),
           Attribute("ListId", numbering[1].numId)>>
    ELSE <<Attribute("Numbered", <<"true">>),
           Attribute("NumberType", <<"NUMBER_TYPE_NUMBER_TRE">>),
           Attribute("ListLevel", numbering[1].level),
           Attribute("ListId", numbering[1].numId)>>

buildParagraphElement(paragraph, childElements) ==
    [kind |-> "paragraph", Alignment |-> alignmentMap(paragraph.alignment),
     list |-> listAttributes(paragraph.numbering), children |-> childElements]

-----------------------------------------------------------------------------
(* UdfGenerator: the serializer.  A serializer state is a record with the  *)
(* fields content, elements, currentOffset and collectedFootnotes; inside  *)
(* a method the record also carries the method's local variables.          *)

GenState(c, e, o, f) ==
    [content |-> c, elements |-> e, currentOffset |-> o, collectedFootnotes |-> f]

\* the state generate() starts from ("Reset state")
FreshState == GenState(<<>>, <<>>, 0, <<>>)

\* the fields of the UdfGenerator object, without a method's locals
Fields(acc) == GenState(acc.content, acc.elements, acc.currentOffset, acc.collectedFootnotes)

\* the loop body with the label element placed at the newline before the footnote
appendFootnoteAtNewline(st, footnote) ==
    [st EXCEPT !.content = @ \o <<NL>> \o footnote.number \o <<".", SP>> \o footnote.text,
               !.currentOffset = @ + 1 + Len(footnote.number) + 2 + Len(footnote.text),
               !.elements = Append(@, PlainParagraphElement(
                                <<ContentElement(st.currentOffset, Len(footnote.number) + 2,
                                                 10, TRUE),
                                  ContentElement(st.currentOffset + Len(footnote.number) + 2,
                                                 Len(footnote.text), 10, FALSE)>>))]

\* one iteration of the loop of appendFootnotesSection
appendFootnote(st, footnote) ==
    LET numPart == footnote.number \o <<".", SP>>
        textPart == footnote.text
        off1 == st.currentOffset + 1
        off2 == off1 + Len(numPart)
    IN  [st EXCEPT !.content = @ \o <<NL>> \o numPart \o textPart,
                   !.currentOffset = off2 + Len(textPart),
                   !.elements = Append(@, PlainParagraphElement(
                                    <<ContentElement(off1, Len(numPart), 10, TRUE),
                                      ContentElement(off2, Len(textPart), 10, FALSE)>>))]

RECURSIVE appendFootnotes(_, _)
appendFootnotes(st, footnotes) ==
    IF footnotes = <<>> THEN st
    ELSE appendFootnotes(appendFootnote(st, Head(footnotes)), Tail(footnotes))

\* the two paragraphs that open a footnote section: blank line, separator line
appendSeparator(st) ==
    [st EXCEPT !.elements = @ \o
                   <<PlainParagraphElement(<<ContentElement(st.currentOffset, 1, 12, FALSE)>>),
                     PlainParagraphElement(
                         <<ContentElement(st.currentOffset + 1, SeparatorLen, 10, FALSE)>>)>>,
               !.content = @ \o <<NL>> \o separator,
               !.currentOffset = @ + 1 + SeparatorLen]

appendFootnotesSection(st) ==
    appendFootnotes(appendSeparator(st), st.collectedFootnotes)

\* pageBreak branch: the runs collected so far go to content and to a paragraph element
flushParagraph(acc, paragraph) ==
    [acc EXCEPT !.content = @ \o Join(acc.paraContent),
                !.elements = IF Len(acc.paraElements) > 0
                             THEN Append(@, buildParagraphElement(paragraph, acc.paraElements))
                             ELSE @]

\* flushPageFootnotes without "Clear for next page"
flushPageFootnotesNoClear(acc) ==
    IF Len(acc.collectedFootnotes) > 0 THEN appendFootnotesSection(acc) ELSE acc

\* pageBreak branch: "Insert footnotes for this page before the page break"
flushPageFootnotes(acc) ==
    IF Len(acc.collectedFootnotes) > 0
    THEN [appendFootnotesSection(acc) EXCEPT !.collectedFootnotes = <<>>]
    ELSE acc

\* pageBreak branch: the marker, and the return
pushPageBreak(acc) ==
    [acc EXCEPT !.elements = Append(@, PageBreakElement), !.returned = TRUE]

\* paragraphPageBreak with the marker pushed before the footnotes section
paragraphPageBreakMarkerFirst(acc, paragraph) ==
    flushPageFootnotes(pushPageBreak(flushParagraph(acc, paragraph)))

\* the pageBreak branch of processParagraph
paragraphPageBreak(acc, paragraph) ==
    pushPageBreak(flushPageFootnotes(flushParagraph(acc, paragraph)))

\* the footnoteRef branch of processParagraph
paragraphFootnoteRef(acc, run) ==
    [acc EXCEPT !.collectedFootnotes = Append(@, [number |-> run.id, text |-> run.content]),
                !.paraElements = Append(@, ContentElement(acc.currentOffset, Len(run.id), 10, TRUE)),
                !.paraContent = Append(@, run.id),
                !.currentOffset = @ + Len(run.id)]

\* one iteration of the run loop of processParagraph; acc is the serializer state
\* with the locals paraContent, paraElements and returned (the early return)
paragraphRun(acc, paragraph, run) ==
    IF run.type = "text" THEN
        [acc EXCEPT !.paraElements = Append(@, ContentElement(acc.currentOffset, Len(run.text), 12, FALSE)),
                    !.paraContent = Append(@, run.text),
                    !.currentOffset = @ + Len(run.text)]
    ELSE IF run.type = "tab" THEN
        [acc EXCEPT !.paraElements = Append(@, TabElement(acc.currentOffset)),
                    !.paraContent = Append(@, <<TAB>>),
                    !.currentOffset = @ + 1]
    ELSE IF run.type = "image" THEN
        IF run.data # Null THEN
            [acc EXCEPT !.paraElements = Append(@, ImageElement(acc.currentOffset)),
                        !.paraContent = Append(@, <<OBJ>>),
                        !.currentOffset = @ + 1]
        ELSE acc
    ELSE IF run.type = "break" THEN
        [acc EXCEPT !.paraContent = Append(@, <<NL>>),
                    !.currentOffset = @ + 1]
    ELSE IF run.type = "pageBreak" THEN paragraphPageBreak(acc, paragraph)
    ELSE IF run.type = "footnoteRef" THEN paragraphFootnoteRef(acc, run)
    ELSE acc

RECURSIVE paragraphRuns(_, _, _)
paragraphRuns(acc, paragraph, runs) ==
    IF runs = <<>> \/ acc.returned THEN acc
    ELSE paragraphRuns(paragraphRun(acc, paragraph, Head(runs)), paragraph, Tail(runs))

\* paragraphPlaceholder with the cursor left where it was
paragraphPlaceholderNoAdvance(acc) ==
    IF Len(acc.paraContent) = 0
    THEN [acc EXCEPT !.paraContent = Append(@, <<ZWSP>>),
                     !.paraElements = Append(@, ContentElement(acc.currentOffset, 1, 12, FALSE))]
    ELSE acc

\* paragraphPlaceholder left out
paragraphPlaceholderNone(acc) == acc

\* "If paragraph is empty, add placeholder"
paragraphPlaceholder(acc) ==
    IF Len(acc.paraContent) = 0
    THEN [acc EXCEPT !.paraContent = Append(@, <<ZWSP>>),
                     !.paraElements = Append(@, ContentElement(acc.currentOffset, 1, 12, FALSE)),
                     !.currentOffset = @ + 1]
    ELSE acc

\* the last two statements of processParagraph
paragraphPush(acc, paragraph) ==
    [acc EXCEPT !.content = @ \o Join(acc.paraContent),
                !.elements = Append(@, buildParagraphElement(paragraph, acc.paraElements))]

\* processParagraph after the run loop, unless the pageBreak branch has returned
paragraphClose(acc, paragraph) ==
    IF acc.returned THEN acc ELSE paragraphPush(paragraphPlaceholder(acc), paragraph)

\* the locals of processParagraph at its start
ParagraphLocals(st) ==
    [content |-> st.content, elements |-> st.elements,
     currentOffset |-> st.currentOffset, collectedFootnotes |-> st.collectedFootnotes,
     paraContent |-> <<>>, paraElements |-> <<>>, returned |-> FALSE]

processParagraph(st, paragraph) ==
    Fields(paragraphClose(paragraphRuns(ParagraphLocals(st), paragraph, paragraph.runs),
                          paragraph))

\* the loop body with the image branch taken for unresolved data too
cellRunImageAlways(acc, run) ==
    IF run.type = "text" THEN
        [acc EXCEPT !.paraElements = Append(@, ContentElement(acc.currentOffset, Len(run.text), 12, FALSE)),
                    !.content = @ \o run.text,
                    !.currentOffset = @ + Len(run.text)]
    ELSE IF run.type = "tab" THEN
        [acc EXCEPT !.paraElements = Append(@, TabElement(acc.currentOffset)),
                    !.content = @ \o <<TAB>>,
                    !.currentOffset = @ + 1]
    ELSE IF run.type = "image" THEN
        [acc EXCEPT !.paraElements = Append(@, ImageElement(acc.currentOffset)),
                    !.content = @ \o <<OBJ>>,
                    !.currentOffset = @ + 1]
    ELSE IF run.type = "footnoteRef" THEN
        [acc EXCEPT !.collectedFootnotes = Append(@, [number |-> run.id, text |-> run.content]),
                    !.paraElements = Append(@, ContentElement(acc.currentOffset, Len(run.id), 10, TRUE)),
                    !.content = @ \o run.id,
                    !.currentOffset = @ + Len(run.id)]
    ELSE acc

\* one iteration of the run loop of processTableCell; acc is the serializer state
\* with the locals of processTable and processTableCell (text goes straight to content)
cellRun(acc, run) ==
    IF run.type = "text" THEN
        [acc EXCEPT !.paraElements = Append(@, ContentElement(acc.currentOffset, Len(run.text), 12, FALSE)),
                    !.content = @ \o run.text,
                    !.currentOffset = @ + Len(run.text)]
    ELSE IF run.type = "tab" THEN
        [acc EXCEPT !.paraElements = Append(@, TabElement(acc.currentOffset)),
                    !.content = @ \o <<TAB>>,
                    !.currentOffset = @ + 1]
    ELSE IF run.type = "image" /\ run.data # Null THEN
        [acc EXCEPT !.paraElements = Append(@, ImageElement(acc.currentOffset)),
                    !.content = @ \o <<OBJ>>,
                    !.currentOffset = @ + 1]
    ELSE IF run.type = "footnoteRef" THEN
        [acc EXCEPT !.collectedFootnotes = Append(@, [number |-> run.id, text |-> run.content]),
                    !.paraElements = Append(@, ContentElement(acc.currentOffset, Len(run.id), 10, TRUE)),
                    !.content = @ \o run.id,
                    !.currentOffset = @ + Len(run.id)]
    ELSE acc

RECURSIVE cellRuns(_, _)
cellRuns(acc, runs) ==
    IF runs = <<>> THEN acc ELSE cellRuns(cellRun(acc, Head(runs)), Tail(runs))

\* "Empty paragraph" of processTableCell
cellPlaceholder(acc) ==
    IF Len(acc.paraElements) = 0
    THEN [acc EXCEPT !.content = @ \o <<SP>>,
                     !.paraElements = Append(@, ContentElement(acc.currentOffset, 1, 12, FALSE)),
                     !.currentOffset = @ + 1]
    ELSE acc

\* the paragraph element of a cell paragraph, and the newline unless it is the last
cellParagraphPush(acc, paragraph, last) ==
    [acc EXCEPT !.cellElements = Append(@, buildParagraphElement(paragraph, acc.paraElements)),
                !.content = IF last THEN @ ELSE @ \o <<NL>>,
                !.currentOffset = IF last THEN @ ELSE @ + 1]

\* one iteration of the paragraph loop of processTableCell
cellParagraph(acc, paragraph, last) ==
    cellParagraphPush(cellPlaceholder(cellRuns([acc EXCEPT !.paraElements = <<>>],
                                               paragraph.runs)),
                      paragraph, last)

RECURSIVE cellParagraphs(_, _)
cellParagraphs(acc, paragraphs) ==
    IF paragraphs = <<>> THEN acc
    ELSE cellParagraphs(cellParagraph(acc, Head(paragraphs), Len(paragraphs) = 1),
                        Tail(paragraphs))

\* "Empty cell" of processTableCell
cellEmpty(acc) ==
    IF Len(acc.cellElements) = 0
    THEN [acc EXCEPT !.content = @ \o <<SP>>,
                     !.cellElements = Append(@, PlainParagraphElement(
                                          <<ContentElement(acc.currentOffset, 1, 12, FALSE)>>)),
                     !.currentOffset = @ + 1]
    ELSE acc

\* the result carries the cell's content in the field cellElements
processTableCell(acc, cell) ==
    cellEmpty(cellParagraphs([acc EXCEPT !.cellElements = <<>>], cell.paragraphs))

\* cellElements.push(`<cell...>${cellContent}</cell>`) of processTable
tableCellPush(acc, cell) ==
    [acc EXCEPT !.rowCells = Append(@, [kind |-> "cell",
                                        colspan |-> IF cell.colspan # <<>> /\ cell.colspan[1] > 1
                                                    THEN cell.colspan ELSE <<>>,
                                        paragraphs |-> acc.cellElements])]

\* tableCell without "Skip merged cells"
tableCellNoSkip(acc, cell) == tableCellPush(processTableCell(acc, cell), cell)

\* one iteration of the cell loop of processTable
tableCell(acc, cell) ==
    IF cell.vMergeContinue THEN acc
    ELSE tableCellPush(processTableCell(acc, cell), cell)

RECURSIVE tableCells(_, _)
tableCells(acc, cells) ==
    IF cells = <<>> THEN acc ELSE tableCells(tableCell(acc, Head(cells)), Tail(cells))

\* rowElements.push(`<row ...>${cellElements.join('')}</row>`) of processTable
tableRowPush(acc) ==
    [acc EXCEPT !.rowElements = Append(@, [kind |-> "row", cells |-> acc.rowCells])]

\* one iteration of the row loop of processTable
tableRow(acc, row) == tableRowPush(tableCells([acc EXCEPT !.rowCells = <<>>], row.cells))

RECURSIVE tableRows(_, _)
tableRows(acc, rows) ==
    IF rows = <<>> THEN acc ELSE tableRows(tableRow(acc, Head(rows)), Tail(rows))

\* table.columnWidths.length || (table.rows[0] ? table.rows[0].cells.length : 1)
columnCount(table) ==
    IF Len(table.columnWidths) # 0 THEN Len(table.columnWidths)
    ELSE IF Len(table.rows) > 0 THEN Len(table.rows[1].cells)
    ELSE 1

\* the locals of processTable and of the processTableCell calls it makes
TableLocals(st) ==
    [content |-> st.content, elements |-> st.elements,
     currentOffset |-> st.currentOffset, collectedFootnotes |-> st.collectedFootnotes,
     paraElements |-> <<>>, cellElements |-> <<>>, rowCells |-> <<>>, rowElements |-> <<>>]

\* Math.round(n * num / den) of processTable: <<>> is NaN (0 / 0)
roundSpan(n, num, den) ==
    IF den = 0 THEN <<>> ELSE <<(2 * n * num + den) \div (2 * den)>>

RECURSIVE sum(_)
sum(ws) == IF ws = <<>> THEN 0 ELSE Head(ws) + sum(Tail(ws))

SpanBudget == 300

\* the entries of columnSpans before join(','): each width's share of 300 when widths
\* are known, else 300 / columnCount repeated columnCount times
columnSpans(table) ==
    IF Len(table.columnWidths) > 0
    THEN [i \in 1..Len(table.columnWidths) |->
             roundSpan(table.columnWidths[i], SpanBudget, sum(table.columnWidths))]
    ELSE [i \in 1..columnCount(table) |-> roundSpan(SpanBudget, 1, columnCount(table))]

\* this.elements.push(tableElement)
tablePush(acc, table) ==
    GenState(acc.content,
             Append(acc.elements, [kind |-> "table", columnCount |-> columnCount(table),
                                   columnSpans |-> columnSpans(table),
                                   rows |-> acc.rowElements]),
             acc.currentOffset, acc.collectedFootnotes)

processTable(st, table) == tablePush(tableRows(TableLocals(st), table.rows), table)

\* "Append footnotes section at the end if there are any"
flushEndFootnotes(st) ==
    IF Len(st.collectedFootnotes) > 0 THEN appendFootnotesSection(st) ELSE st

\* ensureParagraph left out
ensureParagraphNone(st) == st

\* ensureParagraph with the placeholder of an empty cell (a space)
ensureParagraphSpace(st) ==
    IF Len(st.content) = 0
    THEN [st EXCEPT !.content = <<SP>>,
                    !.elements = Append(@, PlainParagraphElement(
                                     <<ContentElement(0, 1, 12, FALSE)>>))]
    ELSE st

\* "Ensure we have at least one paragraph"
ensureParagraph(st) ==
    IF Len(st.content) = 0
    THEN [st EXCEPT !.content = <<ZWSP>>,
                    !.elements = Append(@, PlainParagraphElement(
                                     <<ContentElement(0, 1, 12, FALSE)>>))]
    ELSE st

\* generate() after the loop over document.elements
generateEnd(st) == ensureParagraph(flushEndFootnotes(st))

-----------------------------------------------------------------------------
(* The documents explored: every document of at most MaxBlocks block        *)
(* elements whose runs, rows, cells and cell paragraphs number at most       *)
(* MaxNodes.                                                                *)

Runs ==
    {TextRun(<<"a", "b">>), TabRun, ImageRun("DATA"), ImageRun(Null), BreakRun,
     PageBreakRun, FootnoteRefRun(<<"1">>, <<"x">>), FootnoteRefRun(<<>>, <<>>)}

MergeKinds == {"none", "continue", "restart"}

RunSeqs(n) == UNION {[1..k -> Runs] : k \in 0..n}

RECURSIVE ParagraphCost(_)
ParagraphCost(ps) == IF ps = <<>> THEN 0 ELSE 1 + Len(Head(ps).runs) + ParagraphCost(Tail(ps))

RECURSIVE CellCost(_)
CellCost(cs) == IF cs = <<>> THEN 0 ELSE 1 + ParagraphCost(Head(cs).paragraphs) + CellCost(Tail(cs))

RECURSIVE RowCost(_)
RowCost(rs) == IF rs = <<>> THEN 0 ELSE 1 + CellCost(Head(rs).cells) + RowCost(Tail(rs))

RECURSIVE ParaSeqs(_)
ParaSeqs(n) ==
    IF n < 1 THEN {<<>>}
    ELSE {<<>>} \cup UNION {{<<Paragraph(rs)>> \o rest : rest \in ParaSeqs(n - 1 - Len(rs))} :
                            rs \in RunSeqs(n - 1)}

CellsOf(n) == {Cell(m, ps) : m \in MergeKinds, ps \in ParaSeqs(n - 1)}

RECURSIVE CellSeqs(_)
CellSeqs(n) ==
    IF n < 1 THEN {<<>>}
    ELSE {<<>>} \cup UNION {{<<c>> \o rest : rest \in CellSeqs(n - CellCost(<<c>>))} :
                            c \in CellsOf(n)}

RECURSIVE RowSeqs(_)
RowSeqs(n) ==
    IF n < 1 THEN {<<>>}
    ELSE {<<>>} \cup UNION {{<<Row(cs)>> \o rest : rest \in RowSeqs(n - 1 - CellCost(cs))} :
                            cs \in CellSeqs(n - 1)}

\* the paragraphs and the tables of at most n nodes
ParagraphsOf == [n \in 0..MaxNodes |-> {Paragraph(rs) : rs \in RunSeqs(n)}]
TablesOf == [n \in 0..MaxNodes |-> {Table(rs) : rs \in RowSeqs(n)}]

RECURSIVE DocumentCost(_)
DocumentCost(d) ==
    IF d = <<>> THEN 0
    ELSE (IF Head(d).type = "paragraph" THEN Len(Head(d).runs) ELSE RowCost(Head(d).rows))
         + DocumentCost(Tail(d))

NodesLeft == MaxNodes - DocumentCost(document)

-----------------------------------------------------------------------------
(* generate(document) as one call: the loop over document.elements         *)

\* generate(): one iteration of the loop over document.elements
generateElement(st, element) ==
    IF element.type = "paragraph" THEN processParagraph(st, element)
    ELSE IF element.type = "table" THEN processTable(st, element)
    ELSE st

RECURSIVE generateLoop(_, _)
generateLoop(st, els) ==
    IF els = <<>> THEN st ELSE generateLoop(generateElement(st, Head(els)), Tail(els))

\* generate(): "Reset state" without the reset of collectedFootnotes
resetStateKeepingFootnotes(st) ==
    [FreshState EXCEPT !.collectedFootnotes = st.collectedFootnotes]

\* generate(): "Reset state", whatever an earlier call has left in the fields
resetState(st) == FreshState

\* generate(document) up to generateXml() on a generator whose fields are st: the
\* state the call leaves in the generator
generateOn(st, doc) == generateEnd(generateLoop(resetState(st), doc.elements))

\* generate(document) on a new UdfGenerator()
generate(doc) == generateEnd(generateLoop(FreshState, doc.elements))

\* the blob generate() resolves to: content.xml built by generateXml() from the state
Blob(st) == [content |-> st.content, elements |-> st.elements]

-----------------------------------------------------------------------------
(* File names (utils.js) *)

DotDocx == <<".", "d", "o", "c", "x">>
DotUdf == <<".", "u", "d", "f">>

\* String.prototype.toLowerCase on one character of the names explored
lower(c) ==
    CASE c = "D" -> "d" [] c = "O" -> "o" [] c = "C" -> "c" [] c = "X" -> "x"
      [] OTHER -> c

toLowerCase(s) == [i \in 1..Len(s) |-> lower(s[i])]

\* filename.split('.').pop(): what follows the last dot, the whole name without a dot
afterLastDot(s) ==
    SubSeq(s, (CHOOSE i \in 0..Len(s) :
                   /\ i > 0 => s[i] = "."
                   /\ \A j \in (i + 1)..Len(s) : s[j] # ".") + 1, Len(s))

getFileExtension(filename) == toLowerCase(afterLastDot(filename))

\* the positions where pattern occurs in s
occurrences(s, pattern) ==
    {i \in 1..(Len(s) - Len(pattern) + 1) : SubSeq(s, i, i + Len(pattern) - 1) = pattern}

replaceAt(s, at, pattern, replacement) ==
    SubSeq(s, 1, at - 1) \o replacement \o SubSeq(s, at + Len(pattern), Len(s))

\* String.prototype.replace(pattern, replacement) with a string pattern: the first
\* occurrence only, compared case-sensitively
replace(s, pattern, replacement) ==
    IF occurrences(s, pattern) = {} THEN s
    ELSE replaceAt(s, CHOOSE i \in occurrences(s, pattern) :
                          \A j \in occurrences(s, pattern) : i <= j,
                   pattern, replacement)

-----------------------------------------------------------------------------
(* DocxParser.parse: what it does with a package.  A package is described  *)
(* by what the calls parse() makes on it give: whether JSZip can open it,  *)
(* whether it has the entry word/document.xml, whether that entry is       *)
(* well-formed XML, whether the DOM that DOMParser returns for it has a    *)
(* w:body element, and the block elements parseParagraph / parseTable      *)
(* build from that body's children.  DOMParser.parseFromString does not    *)
(* throw on XML that is not well-formed: it returns a document that holds  *)
(* a parsererror element, and, depending on the browser, nothing else or   *)
(* also what was read before the error.                                    *)

Bodies ==
    {<<>>,
     <<Paragraph(<<TextRun(<<"a", "b">>)>>)>>,
     <<Paragraph(<<ImageRun(Null)>>), Table(<<Row(<<Cell("none", <<>>)>>)>>)>>}

Packages ==
    {p \in [opens : BOOLEAN, hasDocumentXml : BOOLEAN, wellFormed : BOOLEAN,
            hasBody : BOOLEAN, body : Bodies] :
        /\ p.hasDocumentXml => p.opens
        /\ p.wellFormed => p.hasDocumentXml
        /\ p.hasBody => p.hasDocumentXml
        /\ ~p.hasBody => p.body = <<>>}

\* what parse() throws from its catch block
ParseError == [threw |-> TRUE, elements |-> <<>>]

\* what parse() returns: { elements, images }
ParseResult(els) == [threw |-> FALSE, elements |-> els]

\* extractElements(): no body gives [], else one element per p / tbl child
extractElements(package) == IF ~package.hasBody THEN <<>> ELSE package.body

\* parse() on a package JSZip has opened: this.zip.file('word/document.xml') is null
\* for a missing entry and reading .async of it throws; parseXml never throws
parseOpened(package) ==
    IF ~package.hasDocumentXml THEN ParseError
    ELSE ParseResult(extractElements(package))

\* parse(file): JSZip.loadAsync rejects for null and for what is not a zip archive
parse(file) ==
    IF file = <<>> THEN ParseError
    ELSE IF ~file[1].package.opens THEN ParseError
    ELSE parseOpened(file[1].package)

-----------------------------------------------------------------------------
(* The page (WordToUdfApp) *)

FileNames ==
    {<<"a">> \o DotDocx, <<"b", ".", "D", "O", "C", "X">>, <<"c", ".", "t", "x", "t">>,
     <<"d">> \o DotDocx \o DotDocx}

Files == {[name |-> n, package |-> p] : n \in FileNames, p \in Packages}

\* the page as handleConvertAnother's "Reset UI" leaves it, with nothing else shown
InitialUi ==
    [uploadZoneHidden |-> FALSE, fileInfoHidden |-> TRUE, convertBtnHidden |-> FALSE,
     convertBtnDisabled |-> TRUE, progressHidden |-> TRUE, downloadHidden |-> TRUE,
     errorHidden |-> TRUE]

\* a handleConvert call that has just begun; a local (the argument of parse, the
\* document, the blob awaited) is <<>> before it is set and once it is no longer read
Conversion ==
    [at |-> "sleep1", file |-> <<>>, document |-> <<>>, parsed |-> "pending",
     generated |-> "never", blob |-> <<>>]

-----------------------------------------------------------------------------
(* generate(), one action per call it makes *)

Current == GenState(content, elements, currentOffset, collectedFootnotes)

Becomes(st) ==
    /\ content' = st.content
    /\ elements' = st.elements
    /\ currentOffset' = st.currentOffset
    /\ collectedFootnotes' = st.collectedFootnotes

Constructed ==
    /\ content = <<>>
    /\ elements = <<>>
    /\ currentOffset = 0
    /\ collectedFootnotes = <<>>
    /\ document = <<>>
    /\ pc = "idle"
    /\ selectedFile = <<>>
    /\ convertedBlob = <<>>
    /\ outputFilename = <<"d", "o", "c", "u", "m", "e", "n", "t">> \o DotUdf
    /\ ui = InitialUi
    /\ conversions = <<>>
    /\ delivered = <<>>

Init ==
    /\ Constructed
    /\ call = <<>>
    /\ outcome = <<>>

\* generate(document) is called: "Reset state"
Generate ==
    /\ pc \in {"idle", "done"}
    /\ Becomes(resetState(Current))
    /\ document' = <<>>
    /\ pc' = "loop"
    /\ UNCHANGED <<appVars, fnVars>>

\* the loop reaches a paragraph
ProcessParagraph ==
    /\ pc = "loop"
    /\ Len(document) < MaxBlocks
    /\ \E paragraph \in ParagraphsOf[NodesLeft] :
          /\ Becomes(processParagraph(Current, paragraph))
          /\ document' = Append(document, paragraph)
    /\ pc' = "loop"
    /\ UNCHANGED <<appVars, fnVars>>

\* the loop reaches a table
ProcessTable ==
    /\ pc = "loop"
    /\ Len(document) < MaxBlocks
    /\ \E table \in TablesOf[NodesLeft] :
          /\ Becomes(processTable(Current, table))
          /\ document' = Append(document, table)
    /\ pc' = "loop"
    /\ UNCHANGED <<appVars, fnVars>>

\* the loop is over: footnotes at the end, the placeholder, generateXml
Finish ==
    /\ pc = "loop"
    /\ Becomes(generateEnd(Current))
    /\ document' = document
    /\ pc' = "done"
    /\ UNCHANGED <<appVars, fnVars>>

Next == Generate \/ ProcessParagraph \/ ProcessTable \/ Finish

Spec == Init /\ [][Next]_vars

-----------------------------------------------------------------------------
(* WordToUdfApp: the user's events and the steps of handleConvert between   *)
(* its awaits.  A control takes a click only while it is shown: the file   *)
(* input belongs to the upload zone, the remove button to the file info,   *)
(* the download and convert-another buttons to the download section (the   *)
(* page's markup, index.html); a disabled button takes no click.           *)

\* the catch block of handleConvert
catchError(u) ==
    [u EXCEPT !.progressHidden = TRUE, !.convertBtnHidden = FALSE, !.errorHidden = FALSE]

\* handleConvert after "await this.parser.parse(...)" when the failure is not caught
\* and the handler goes on to generate
afterParseUncaught(c, result, u) ==
    [conversion |-> [c EXCEPT !.at = "sleep2", !.file = <<>>,
                              !.parsed = IF result.threw THEN "error" ELSE "ok",
                              !.document = IF result.threw THEN <<>>
                                           ELSE <<[elements |-> result.elements]>>],
     ui |-> u]

\* handleConvert after "await this.parser.parse(...)": a rejection goes to the catch
\* block, a result is kept in the local document
afterParse(c, result, u) ==
    IF result.threw
    THEN [conversion |-> [c EXCEPT !.at = "failed", !.file = <<>>, !.parsed = "error"],
          ui |-> catchError(u)]
    ELSE [conversion |-> [c EXCEPT !.at = "sleep2", !.file = <<>>, !.parsed = "ok",
                                   !.document = <<[elements |-> result.elements]>>],
          ui |-> u]

\* generate(document) throws at "for (const element of document.elements)" when
\* document is undefined
generateThrows(doc) == doc = <<>>

\* processFile(file), reached from handleFileSelect and handleDrop
ProcessFile ==
    /\ ~ui.uploadZoneHidden
    /\ \E file \in Files :
          IF getFileExtension(file.name) # <<"d", "o", "c", "x">>
          THEN /\ ui' = [ui EXCEPT !.errorHidden = FALSE]
               /\ UNCHANGED <<selectedFile, outputFilename>>
          ELSE /\ selectedFile' = <<file>>
               /\ outputFilename' = replace(file.name, DotDocx, DotUdf)
               /\ ui' = [ui EXCEPT !.uploadZoneHidden = TRUE, !.fileInfoHidden = FALSE,
                                   !.convertBtnDisabled = FALSE, !.errorHidden = TRUE]
    /\ UNCHANGED <<fnVars, genVars, convertedBlob, conversions, delivered>>

HandleRemoveFile ==
    /\ ~ui.fileInfoHidden
    /\ selectedFile' = <<>>
    /\ ui' = [ui EXCEPT !.fileInfoHidden = TRUE, !.uploadZoneHidden = FALSE,
                        !.convertBtnDisabled = TRUE, !.errorHidden = TRUE]
    /\ UNCHANGED <<fnVars, genVars, convertedBlob, outputFilename, conversions, delivered>>

\* handleConvert up to "await sleep(300)" with the convert button left shown
HandleConvertButtonShown ==
    /\ ~ui.convertBtnHidden /\ ~ui.convertBtnDisabled
    /\ Len(conversions) < MaxConversions
    /\ IF selectedFile = <<>>
       THEN UNCHANGED <<ui, conversions>>
       ELSE /\ ui' = [ui EXCEPT !.progressHidden = FALSE, !.errorHidden = TRUE]
            /\ conversions' = Append(conversions, Conversion)
    /\ UNCHANGED <<fnVars, genVars, selectedFile, convertedBlob, outputFilename, delivered>>

\* handleConvert up to "await sleep(300)"
HandleConvert ==
    /\ ~ui.convertBtnHidden /\ ~ui.convertBtnDisabled
    /\ Len(conversions) < MaxConversions
    /\ IF selectedFile = <<>>
       THEN UNCHANGED <<ui, conversions>>
       ELSE /\ ui' = [ui EXCEPT !.convertBtnHidden = TRUE, !.progressHidden = FALSE,
                                !.errorHidden = TRUE]
            /\ conversions' = Append(conversions, Conversion)
    /\ UNCHANGED <<fnVars, genVars, selectedFile, convertedBlob, outputFilename, delivered>>

\* the first sleep is over: this.parser.parse(this.selectedFile) is called
ParseCalled ==
    \E i \in 1..Len(conversions) :
        /\ conversions[i].at = "sleep1"
        /\ conversions' = [conversions EXCEPT ![i].at = "parse", ![i].file = selectedFile]
        /\ UNCHANGED <<fnVars, genVars, selectedFile, convertedBlob, outputFilename, ui, delivered>>

\* parse settles: the catch block, or "Converting to UDF format..." and the second sleep
ParseSettled ==
    \E i \in 1..Len(conversions) :
        /\ conversions[i].at = "parse"
        /\ \E out \in {afterParse(conversions[i], parse(conversions[i].file), ui)} :
              /\ conversions' = [conversions EXCEPT ![i] = out.conversion]
              /\ ui' = out.ui
        /\ UNCHANGED <<fnVars, genVars, selectedFile, convertedBlob, outputFilename, delivered>>

\* the second sleep is over: this.generator.generate(document) runs up to its await
GenerateCalled ==
    \E i \in 1..Len(conversions) :
        /\ conversions[i].at = "sleep2"
        /\ IF generateThrows(conversions[i].document)
           THEN /\ Becomes(FreshState)
                /\ document' = <<>>
                /\ pc' = "idle"
                /\ conversions' = [conversions EXCEPT ![i].at = "failed",
                                                      ![i].document = <<>>,
                                                      ![i].generated = "error"]
                /\ ui' = catchError(ui)
           ELSE /\ \E st \in {generateOn(Current, conversions[i].document[1])} :
                      /\ Becomes(st)
                      /\ conversions' = [conversions EXCEPT ![i].at = "zip",
                                                            ![i].document = <<>>,
                                                            ![i].generated = "called",
                                                            ![i].blob = <<Blob(st)>>]
                /\ document' = conversions[i].document[1].elements
                /\ pc' = "done"
                /\ ui' = ui
        /\ UNCHANGED <<fnVars, selectedFile, convertedBlob, outputFilename, delivered>>

\* zip.generateAsync settles: this.convertedBlob is assigned, the third sleep begins
GenerateSettled ==
    \E i \in 1..Len(conversions) :
        /\ conversions[i].at = "zip"
        /\ convertedBlob' = conversions[i].blob
        /\ conversions' = [conversions EXCEPT ![i].at = "sleep3", ![i].blob = <<>>,
                                              ![i].generated = "ok"]
        /\ UNCHANGED <<fnVars, genVars, selectedFile, outputFilename, ui, delivered>>

\* the third sleep is over: "Show download section"
ShowDownload ==
    \E i \in 1..Len(conversions) :
        /\ conversions[i].at = "sleep3"
        /\ conversions' = [conversions EXCEPT ![i].at = "done"]
        /\ ui' = [ui EXCEPT !.progressHidden = TRUE, !.fileInfoHidden = TRUE,
                            !.downloadHidden = FALSE]
        /\ UNCHANGED <<fnVars, genVars, selectedFile, convertedBlob, outputFilename, delivered>>

HandleDownload ==
    /\ ~ui.downloadHidden
    /\ IF convertedBlob # <<>>
       THEN delivered' = <<[blob |-> convertedBlob[1], filename |-> outputFilename]>>
       ELSE delivered' = delivered
    /\ UNCHANGED <<fnVars, genVars, selectedFile, convertedBlob, outputFilename, ui, conversions>>

HandleConvertAnother ==
    /\ ~ui.downloadHidden
    /\ selectedFile' = <<>>
    /\ convertedBlob' = <<>>
    /\ ui' = [ui EXCEPT !.downloadHidden = TRUE, !.uploadZoneHidden = FALSE,
                        !.convertBtnHidden = FALSE, !.convertBtnDisabled = TRUE,
                        !.errorHidden = TRUE]
    /\ UNCHANGED <<fnVars, genVars, outputFilename, conversions, delivered>>

NextApp ==
    \/ ProcessFile \/ HandleRemoveFile \/ HandleConvert
    \/ ParseCalled \/ ParseSettled \/ GenerateCalled \/ GenerateSettled \/ ShowDownload
    \/ HandleDownload \/ HandleConvertAnother

SpecApp == Init /\ [][NextApp]_vars

-----------------------------------------------------------------------------
(* Reading the output: the content/tab/image elements in emission order,    *)
(* and the steps of generate() as seen from outside                         *)

RECURSIVE ParagraphLeaves(_)
ParagraphLeaves(ps) ==
    IF ps = <<>> THEN <<>> ELSE Head(ps).children \o ParagraphLeaves(Tail(ps))

RECURSIVE CellLeaves(_)
CellLeaves(cs) ==
    IF cs = <<>> THEN <<>> ELSE ParagraphLeaves(Head(cs).paragraphs) \o CellLeaves(Tail(cs))

RECURSIVE RowLeaves(_)
RowLeaves(rs) ==
    IF rs = <<>> THEN <<>> ELSE CellLeaves(Head(rs).cells) \o RowLeaves(Tail(rs))

RECURSIVE Leaves(_)
Leaves(es) ==
    IF es = <<>> THEN <<>>
    ELSE (CASE Head(es).kind = "paragraph" -> Head(es).children
            [] Head(es).kind = "table" -> RowLeaves(Head(es).rows)
            [] OTHER -> <<>>)
         \o Leaves(Tail(es))

RECURSIVE SumLength(_)
SumLength(ls) == IF ls = <<>> THEN 0 ELSE Head(ls).length + SumLength(Tail(ls))

\* the characters of buf an element addresses
Slice(buf, leaf) == SubSeq(buf, leaf.startOffset + 1, leaf.startOffset + leaf.length)

Last(seq) == seq[Len(seq)]

\* this step is a completed processParagraph / processTable call on Last(document')
ParagraphStep ==
    /\ pc = "loop" /\ pc' = "loop"
    /\ Len(document') = Len(document) + 1
    /\ Last(document').type = "paragraph"

TableStep ==
    /\ pc = "loop" /\ pc' = "loop"
    /\ Len(document') = Len(document) + 1
    /\ Last(document').type = "table"

FinishStep == pc = "loop" /\ pc' = "done"

-----------------------------------------------------------------------------
(* C1: after generate(), the lengths of the content/tab/image elements sum *)
(* to the buffer length and their ranges, in emission order, tile the      *)
(* buffer without gap or overlap.                                          *)

Tiles(ls, n) ==
    /\ SumLength(ls) = n
    /\ \A i \in 1..Len(ls) :
          ls[i].startOffset = IF i = 1 THEN 0 ELSE ls[i - 1].startOffset + ls[i - 1].length

C1_ElementsTileBuffer == pc = "done" => Tiles(Leaves(elements), Len(content))

-----------------------------------------------------------------------------
(* C2: for every document the buffer handed to generateXml is non-empty    *)
(* and the element list holds at least one element.                        *)

C2_NeverEmpty == pc = "done" => Len(content) >= 1 /\ Len(elements) >= 1

\* a document of one paragraph that holds only a page break
C2_Witness ==
    /\ pc = "done"
    /\ document = <<Paragraph(<<PageBreakRun>>)>>
    /\ elements[1] = PageBreakElement

-----------------------------------------------------------------------------
(* C8: a document without block elements gives a buffer of exactly one     *)
(* zero-width placeholder and exactly one paragraph element whose single   *)
(* content element has startOffset 0 and length 1.                         *)

C8_EmptyDocument ==
    (pc = "done" /\ document = <<>>) =>
        /\ content = <<ZWSP>>
        /\ Len(elements) = 1
        /\ elements[1].kind = "paragraph"
        /\ Len(elements[1].children) = 1
        /\ elements[1].children[1].kind = "content"
        /\ elements[1].children[1].startOffset = 0
        /\ elements[1].children[1].length = 1

C8_Witness == pc = "done" /\ document = <<>> /\ Len(content) = 1

-----------------------------------------------------------------------------
(* C9: a top-level paragraph whose runs append nothing (no runs, or only   *)
(* image runs with unresolved data) gives exactly one paragraph element    *)
(* with exactly one default-formatted content element of length 1 at the   *)
(* cursor before the paragraph, and advances the cursor by exactly 1.      *)

AppendsNothing(paragraph) ==
    \A i \in 1..Len(paragraph.runs) :
        paragraph.runs[i].type = "image" /\ paragraph.runs[i].data = Null

C9_EmptyParagraph ==
    [][(ParagraphStep /\ AppendsNothing(Last(document'))) =>
          /\ Len(elements') = Len(elements) + 1
          /\ SubSeq(elements', 1, Len(elements)) = elements
          /\ Last(elements').kind = "paragraph"
          /\ Last(elements').children = <<ContentElement(currentOffset, 1, 12, FALSE)>>
          /\ currentOffset' = currentOffset + 1]_vars

\* an unresolved image alone in a paragraph, after a paragraph of text
C9_Witness ==
    /\ pc = "loop"
    /\ document = <<Paragraph(<<TextRun(<<"a", "b">>)>>), Paragraph(<<ImageRun(Null)>>)>>
    /\ currentOffset = 3
    /\ Len(elements) = 2

-----------------------------------------------------------------------------
(* C10: every processParagraph call, for any run sequence including one    *)
(* with a page-break run, increases the buffer length by at least 1.       *)

HasRun(paragraph, type) == \E i \in 1..Len(paragraph.runs) : paragraph.runs[i].type = type

HasEmptyLabel(paragraph) ==
    \E i \in 1..Len(paragraph.runs) :
        paragraph.runs[i].type = "footnoteRef" /\ paragraph.runs[i].id = <<>>

-----------------------------------------------------------------------------
(* Footnotes, read from the input and from the output                      *)

Footnote(run) == [number |-> run.id, text |-> run.content]

\* the footnote references of a top-level paragraph that precede its first page break
RECURSIVE FootnotesBeforeBreak(_)
FootnotesBeforeBreak(runs) ==
    IF runs = <<>> \/ Head(runs).type = "pageBreak" THEN <<>>
    ELSE (IF Head(runs).type = "footnoteRef" THEN <<Footnote(Head(runs))>> ELSE <<>>)
         \o FootnotesBeforeBreak(Tail(runs))

RECURSIVE FootnotesOfRuns(_)
FootnotesOfRuns(runs) ==
    IF runs = <<>> THEN <<>>
    ELSE (IF Head(runs).type = "footnoteRef" THEN <<Footnote(Head(runs))>> ELSE <<>>)
         \o FootnotesOfRuns(Tail(runs))

RECURSIVE FootnotesOfParagraphs(_)
FootnotesOfParagraphs(ps) ==
    IF ps = <<>> THEN <<>>
    ELSE FootnotesOfRuns(Head(ps).runs) \o FootnotesOfParagraphs(Tail(ps))

RECURSIVE FootnotesOfCells(_)
FootnotesOfCells(cs) ==
    IF cs = <<>> THEN <<>>
    ELSE (IF Head(cs).vMergeContinue THEN <<>> ELSE FootnotesOfParagraphs(Head(cs).paragraphs))
         \o FootnotesOfCells(Tail(cs))

RECURSIVE FootnotesOfRows(_)
FootnotesOfRows(rs) ==
    IF rs = <<>> THEN <<>> ELSE FootnotesOfCells(Head(rs).cells) \o FootnotesOfRows(Tail(rs))

\* every footnote the blocks of d push onto the pending list, in order
RECURSIVE Pushed(_)
Pushed(d) ==
    IF d = <<>> THEN <<>>
    ELSE (IF Head(d).type = "paragraph" THEN FootnotesBeforeBreak(Head(d).runs)
          ELSE FootnotesOfRows(Head(d).rows))
         \o Pushed(Tail(d))

\* es is a footnote section for the footnotes fns in the buffer buf: a blank-line
\* paragraph, a separator-line paragraph, one paragraph per footnote
IsFootnoteSection(es, fns, buf) ==
    /\ Len(es) = Len(fns) + 2
    /\ \A i \in 1..Len(es) : es[i].kind = "paragraph"
    /\ Len(es[1].children) = 1 /\ Slice(buf, es[1].children[1]) = <<NL>>
    /\ Len(es[2].children) = 1 /\ Slice(buf, es[2].children[1]) = separator
    /\ \A i \in 1..Len(fns) :
          /\ Len(es[i + 2].children) = 2
          /\ Slice(buf, es[i + 2].children[1]) = fns[i].number \o <<".", SP>>
          /\ Slice(buf, es[i + 2].children[2]) = fns[i].text

IsSeparatorLine(e, buf) ==
    /\ e.kind = "paragraph"
    /\ Len(e.children) = 1
    /\ Slice(buf, e.children[1]) = separator

\* the footnotes written by the footnote sections of es, in order: the paragraphs
\* that follow a separator line, up to the next page-break marker
RECURSIVE Written(_, _, _)
Written(es, buf, inSection) ==
    IF es = <<>> THEN <<>>
    ELSE IF IsSeparatorLine(Head(es), buf) THEN Written(Tail(es), buf, TRUE)
    ELSE IF Head(es).kind = "page-break" THEN Written(Tail(es), buf, FALSE)
    ELSE IF inSection /\ Head(es).kind = "paragraph" /\ Len(Head(es).children) = 2
         THEN LET label == Slice(buf, Head(es).children[1])
              IN  <<[number |-> SubSeq(label, 1, Len(label) - 2),
                     text |-> Slice(buf, Head(es).children[2])]>>
                  \o Written(Tail(es), buf, TRUE)
    ELSE Written(Tail(es), buf, inSection)

-----------------------------------------------------------------------------
(* C5: footnotes collected before a page-break run are flushed as a         *)
(* footnote section placed immediately before that break's page-break      *)
(* marker, and the pending list is empty right after the marker; footnotes *)
(* collected after the last page break are flushed once, at document end,  *)
(* after all block elements.                                               *)

C5_FlushBeforeBreakAndAtEnd ==
    [][/\ (ParagraphStep /\ HasRun(Last(document'), "pageBreak")) =>
            LET pending == collectedFootnotes \o FootnotesBeforeBreak(Last(document').runs)
                n == Len(elements')
            IN  /\ n > Len(elements)
                /\ elements'[n] = PageBreakElement
                /\ collectedFootnotes' = <<>>
                /\ pending # <<>> =>
                      /\ n - Len(elements) >= Len(pending) + 3
                      /\ IsFootnoteSection(SubSeq(elements', n - Len(pending) - 2, n - 1),
                                           pending, content')
                /\ pending = <<>> => n - Len(elements) <= 2
       /\ FinishStep =>
            /\ collectedFootnotes # <<>> =>
                  /\ Len(elements') = Len(elements) + Len(collectedFootnotes) + 2
                  /\ SubSeq(elements', 1, Len(elements)) = elements
                  /\ IsFootnoteSection(SubSeq(elements', Len(elements) + 1, Len(elements')),
                                       collectedFootnotes, content')
            /\ collectedFootnotes = <<>> => Len(elements') <= Len(elements) + 1]_vars

\* one footnote flushed at a page break, another one at the document end
C5_Witness ==
    /\ pc = "done"
    /\ document = <<Paragraph(<<FootnoteRefRun(<<"1">>, <<"x">>), PageBreakRun>>),
                    Paragraph(<<FootnoteRefRun(<<>>, <<>>)>>)>>
    /\ Len(elements) = 9
    /\ elements[5] = PageBreakElement

-----------------------------------------------------------------------------
(* C6: within one generate() call every footnote pushed onto the pending   *)
(* list is written by exactly one footnote section: none is written twice  *)
(* and none is left unwritten when generate() ends.                        *)

C6_EachFootnoteWrittenOnce ==
    pc = "done" => Written(elements, content, FALSE) = Pushed(document)

\* a footnote flushed at a page break, then the same label again flushed at the end
C6_Witness ==
    /\ pc = "done"
    /\ document = <<Paragraph(<<FootnoteRefRun(<<"1">>, <<"x">>), PageBreakRun>>),
                    Paragraph(<<FootnoteRefRun(<<"1">>, <<"x">>)>>)>>
    /\ Len(Written(elements, content, FALSE)) = 2

-----------------------------------------------------------------------------
(* C7: a continuation (vertically merged) cell leaves the buffer, the      *)
(* cursor, the element list and the pending footnotes unchanged and emits  *)
(* no cell element, whatever it contains; a merge-start cell is rendered   *)
(* like an ordinary cell.                                                  *)

RECURSIVE WithoutContinuation(_)
WithoutContinuation(cs) ==
    IF cs = <<>> THEN <<>>
    ELSE (IF Head(cs).vMergeContinue THEN <<>> ELSE <<Head(cs)>>) \o WithoutContinuation(Tail(cs))

RECURSIVE AsOrdinary(_)
AsOrdinary(cs) ==
    IF cs = <<>> THEN <<>>
    ELSE <<[Head(cs) EXCEPT !.vMergeStart = FALSE]>> \o AsOrdinary(Tail(cs))

\* the table with the continuation cells taken out and the merge-start cells made ordinary
Unmerged(table) ==
    [table EXCEPT !.rows = [i \in 1..Len(table.rows) |->
                               Row(AsOrdinary(WithoutContinuation(table.rows[i].cells)))]]

\* the serializer state st and the rows of the last element agree with plain
SameRendering(st, plain) ==
    /\ st.content = plain.content
    /\ st.currentOffset = plain.currentOffset
    /\ st.collectedFootnotes = plain.collectedFootnotes
    /\ Len(st.elements) = Len(plain.elements)
    /\ Last(st.elements).rows = Last(plain.elements).rows

OnlyContinuation(table) ==
    \A i \in 1..Len(table.rows) : \A j \in 1..Len(table.rows[i].cells) :
        table.rows[i].cells[j].vMergeContinue

C7_ContinuationCellSkipped ==
    [][TableStep =>
          /\ SameRendering(Current', processTable(Current, Unmerged(Last(document'))))
          /\ \A i \in 1..Len(Last(document').rows) :
                Len(Last(elements').rows[i].cells)
                    = Len(WithoutContinuation(Last(document').rows[i].cells))
          /\ OnlyContinuation(Last(document')) =>
                /\ content' = content
                /\ currentOffset' = currentOffset
                /\ collectedFootnotes' = collectedFootnotes]_vars

\* a row of a continuation cell followed by a merge-start cell: one cell is rendered
C7_Witness ==
    /\ pc = "loop"
    /\ document = <<Table(<<Row(<<Cell("continue", <<>>), Cell("restart", <<>>)>>)>>)>>
    /\ content = <<SP>>
    /\ Len(elements[1].rows[1].cells) = 1

-----------------------------------------------------------------------------
(* C3: in one conversion (handleConvert) generator.generate is invoked     *)
(* only after parser.parse has completed successfully in that conversion:  *)
(* when parse fails the handler ends in its catch block, generate is never *)
(* invoked and convertedBlob is not set; when parse succeeds generate does *)
(* not end in an error, and a blob is assigned to convertedBlob only by a  *)
(* conversion whose parse succeeded and whose generate has completed.      *)

GenerateOnlyAfterParse ==
    \A i \in 1..Len(conversions) :
        /\ conversions[i].generated # "never" => conversions[i].parsed = "ok"
        /\ conversions[i].parsed = "error" =>
               /\ conversions[i].at = "failed"
               /\ conversions[i].generated = "never"
        /\ conversions[i].parsed = "ok" =>
               /\ conversions[i].generated # "error"
               /\ conversions[i].at # "failed"
               /\ conversions[i].at \in {"sleep3", "done"} => conversions[i].generated = "ok"
        /\ (conversions[i].parsed = "error" /\ i = Len(conversions)) => convertedBlob = <<>>

BlobOnlyFromGenerate ==
    /\ \A i \in 1..Len(conversions) :
          (conversions[i].parsed # "error" /\ conversions'[i].parsed = "error") =>
              convertedBlob' = convertedBlob
    /\ (convertedBlob' # convertedBlob /\ convertedBlob' # <<>>) =>
          \E i \in 1..Len(conversions) :
              /\ conversions[i].at = "zip"
              /\ conversions[i].parsed = "ok"
              /\ conversions'[i].generated = "ok"
              /\ convertedBlob' = conversions[i].blob

C3_GenerateOnlyAfterSuccessfulParse ==
    [](GenerateOnlyAfterParse) /\ [][BlobOnlyFromGenerate]_vars

\* one conversion has failed in parse, a later one has parsed and generated its blob
C3_Witness ==
    \E i, j \in 1..Len(conversions) :
        /\ i < j
        /\ conversions[i].at = "failed" /\ conversions[i].parsed = "error"
        /\ conversions[j].parsed = "ok" /\ conversions[j].generated = "ok"
        /\ convertedBlob # <<>>

-----------------------------------------------------------------------------
(* C4: parse() ends in an error, and returns no document, whenever the     *)
(* package cannot be opened, the entry word/document.xml is missing, or    *)
(* the body XML cannot be parsed (is not well-formed).                     *)

Unreadable(package) ==
    ~package.opens \/ ~package.hasDocumentXml \/ ~package.wellFormed

C4_ParseFailsOnUnreadablePackage ==
    [][\A i \in 1..Len(conversions) :
          (/\ conversions[i].at = "parse"
           /\ conversions'[i].at # "parse"
           /\ conversions[i].file # <<>>
           /\ Unreadable(conversions[i].file[1].package)) =>
              conversions'[i].parsed = "error"]_vars

\* what does hold: parse() ends in an error exactly when the package cannot be
\* opened or has no word/document.xml
C4_ParseFailsOnMissingEntry ==
    [][\A i \in 1..Len(conversions) :
          (/\ conversions[i].at = "parse"
           /\ conversions'[i].at # "parse"
           /\ conversions[i].file # <<>>) =>
              (conversions'[i].parsed = "error" <=>
                  (\/ ~conversions[i].file[1].package.opens
                   \/ ~conversions[i].file[1].package.hasDocumentXml))]_vars

-----------------------------------------------------------------------------
(* 32-bit integers of the bitwise operators (<<, |), kept as two 16-bit    *)
(* halves <<high, low>>                                                    *)

Half == 65536

\* ToInt32 of a number 0 <= n < 2^31
Word(n) == <<n \div Half, n % Half>>

\* the signed reading of a 32-bit word
Signed(w) == IF w[1] >= Half \div 2 THEN (w[1] - Half) * Half + w[2] ELSE w[1] * Half + w[2]

ShiftOne(w) == <<(w[1] * 2 + w[2] \div (Half \div 2)) % Half, (w[2] * 2) % Half>>

\* w << k
RECURSIVE ShiftLeft(_, _)
ShiftLeft(w, k) == IF k = 0 THEN w ELSE ShiftLeft(ShiftOne(w), k - 1)

\* a | b on numbers below 2^bits
RECURSIVE BitOr(_, _, _)
BitOr(a, b, bits) ==
    IF bits = 0 THEN 0
    ELSE (IF a % 2 = 1 \/ b % 2 = 1 THEN 1 ELSE 0) + 2 * BitOr(a \div 2, b \div 2, bits - 1)

\* v | w
Or(v, w) == <<BitOr(v[1], w[1], 16), BitOr(v[2], w[2], 16)>>

-----------------------------------------------------------------------------
(* UdfGenerator.hexToRgbInt *)

\* parseInt(s, 16): the value of the longest prefix of hex digits, <<>> (NaN) when
\* there is none
RECURSIVE parseHex(_, _)
parseHex(s, sofar) ==
    IF s = <<>> \/ Head(s) \notin DOMAIN HexDigits THEN sofar
    ELSE parseHex(Tail(s), <<16 * (IF sofar = <<>> THEN 0 ELSE sofar[1]) + HexDigits[Head(s)]>>)

parseInt16(s) == parseHex(s, <<>>)

\* ToInt32 of a parseInt result below 2^31: NaN becomes 0
ToWord(n) == IF n = <<>> THEN Word(0) ELSE Word(n[1])

\* String.prototype.substring(from, to) for 0 <= from <= to
substring(s, from, to) ==
    SubSeq(s, from + 1, IF to > Len(s) THEN Len(s) ELSE to)

\* 255 << 16: the opaque byte shifted onto the red byte
alphaInRed == ShiftLeft(Word(255), 16)

\* 255 << 24
alpha == ShiftLeft(Word(255), 24)

\* (255 << 24) | (r << 16) | (g << 8) | b, then | 0
rgbOf(hex) ==
    Signed(Or(Or(Or(Or(alpha, ShiftLeft(ToWord(parseInt16(substring(hex, 0, 2))), 16)),
                    ShiftLeft(ToWord(parseInt16(substring(hex, 2, 4))), 8)),
                 ToWord(parseInt16(substring(hex, 4, 6)))),
              Word(0)))

hexToRgbInt(hex) ==
    IF hex = <<>> THEN -16777216
    ELSE rgbOf(replace(hex, <<"#">>, <<>>))

\* the colours examined: no colour, and # followed by six of these digits
ColourDigits == {"0", "7", "8", "F", "f"}

Colours ==
    {<<>>} \cup {<<"#">> \o d : d \in [1..6 -> ColourDigits]}

InitColour ==
    /\ Constructed
    /\ call \in {[hex |-> h] : h \in Colours}
    /\ outcome = <<>>

HexToRgbInt ==
    /\ outcome = <<>>
    /\ outcome' = <<hexToRgbInt(call.hex)>>
    /\ UNCHANGED <<genVars, appVars, call>>

NextColour == HexToRgbInt

SpecColour == InitColour /\ [][NextColour]_vars

-----------------------------------------------------------------------------
(* C11: hexToRgbInt maps #RRGGBB to -16777216 + 65536*R + 256*G + B, the   *)
(* signed 32-bit reading of (0xFF<<24)|(R<<16)|(G<<8)|B, so that #FF0000   *)
(* gives -65536, and maps an absent colour to -16777216.                   *)

Byte(hex, at) == 16 * HexDigits[hex[at]] + HexDigits[hex[at + 1]]

C11_HexToRgbInt ==
    outcome # <<>> =>
        /\ call.hex = <<>> => outcome[1] = -16777216
        /\ call.hex # <<>> =>
              outcome[1] = -16777216 + 65536 * Byte(call.hex, 2) + 256 * Byte(call.hex, 4)
                               + Byte(call.hex, 6)
        /\ call.hex = <<"#", "F", "F", "0", "0", "0", "0">> => outcome[1] = -65536

C11_Witness ==
    /\ call.hex = <<"#", "F", "F", "0", "0", "0", "0">>
    /\ outcome = <<-65536>>

-----------------------------------------------------------------------------
(* The parser's length conversions: twipsToPoints and parseDrawing's       *)
(* extent.  A number is <<n>>, NaN is <<>>; an attribute is its text, a    *)
(* missing attribute (getAttribute gives null) is the empty text.          *)

\* the quotient cut toward zero in place of Math.round
truncated(n, num, den) ==
    IF n = <<>> THEN <<>>
    ELSE IF n[1] >= 0 THEN <<(n[1] * num) \div den>>
    ELSE <<0 - ((0 - n[1]) * num) \div den>>

\* Math.round(n * num / den) for den > 0: the nearest integer, a tie goes up
round(n, num, den) ==
    IF n = <<>> THEN <<>>
    ELSE <<(2 * n[1] * num + den) \div (2 * den)>>

\* text || '0'
orZero(text) == IF text = <<>> THEN <<"0">> ELSE text

twipsToPoints(twips) == round(parseInt(twips), 1, 20)

\* parseParagraph / parseTable: this.twipsToPoints(attribute || '0')
attributePoints(text) == twipsToPoints(orZero(text))

EmuPerInch == 914400
PointsPerInch == 72

\* parseDrawing: Math.round(parseInt(attribute || '0') / 914400 * 72)
extentPoints(text) == round(parseInt(orZero(text)), PointsPerInch, EmuPerInch)

DefaultImageSize == 100

\* parseDrawing: width and height of the image run
imageSize(drawing) ==
    IF drawing.hasExtent
    THEN [width |-> extentPoints(drawing.cx), height |-> extentPoints(drawing.cy)]
    ELSE [width |-> <<DefaultImageSize>>, height |-> <<DefaultImageSize>>]

\* the attribute texts examined
TwipsDigits == {"0", "1", "2", "7"}

Unsigned == UNION {[1..k -> TwipsDigits] : k \in 1..3}

TwipsTexts == {<<>>, <<"x">>} \cup Unsigned \cup {<<"-">> \o t : t \in Unsigned}

EmuTexts ==
    {<<>>, <<"0">>, <<"6", "3", "4", "9">>, <<"6", "3", "5", "0">>, <<"6", "3", "5", "1">>,
     <<"1", "2", "7", "0", "0">>, <<"1", "9", "0", "5", "0">>,
     <<"9", "1", "4", "4", "0", "0">>, <<"9", "5", "2", "5", "0", "0">>}

Drawings ==
    {[hasExtent |-> TRUE, cx |-> x, cy |-> y] : x \in EmuTexts, y \in EmuTexts}
        \cup {[hasExtent |-> FALSE, cx |-> <<>>, cy |-> <<>>]}

InitLengths ==
    /\ Constructed
    /\ call \in {[twips |-> t, drawing |-> g] : t \in TwipsTexts, g \in Drawings}
    /\ outcome = <<>>

\* this.twipsToPoints(attribute || '0') is called on an indent or a column width
TwipsToPoints ==
    /\ \A i \in 1..Len(outcome) : outcome[i].of # "twips"
    /\ outcome' = Append(outcome, [of |-> "twips", points |-> attributePoints(call.twips),
                                   size |-> [width |-> <<>>, height |-> <<>>]])
    /\ UNCHANGED <<genVars, appVars, call>>

\* parseDrawing is called on a drawing
ParseDrawing ==
    /\ \A i \in 1..Len(outcome) : outcome[i].of # "drawing"
    /\ outcome' = Append(outcome, [of |-> "drawing", points |-> <<>>,
                                   size |-> imageSize(call.drawing)])
    /\ UNCHANGED <<genVars, appVars, call>>

NextLengths == TwipsToPoints \/ ParseDrawing

SpecLengths == InitLengths /\ [][NextLengths]_vars

-----------------------------------------------------------------------------
(* C12: a twips value t becomes the integer nearest to t/20 (720 gives 36) *)
(* and an extent e in EMU the integer nearest to e/914400*72 (914400 gives *)
(* 72); a drawing without an extent is 100 x 100 points.                   *)

IsNumber(text) == parseInt(text) # <<>>

\* p is an integer nearest to n * num / den
Nearest(p, n, num, den) ==
    /\ 2 * (p * den - n * num) <= den
    /\ 2 * (n * num - p * den) <= den

NearestExtent(points, text) ==
    /\ points # <<>>
    /\ Nearest(points[1], parseInt(orZero(text))[1], PointsPerInch, EmuPerInch)

C12_LengthsRoundToNearest ==
    \A i \in 1..Len(outcome) :
        /\ (outcome[i].of = "twips" /\ IsNumber(call.twips)) =>
              /\ outcome[i].points # <<>>
              /\ Nearest(outcome[i].points[1], parseInt(call.twips)[1], 1, 20)
        /\ (outcome[i].of = "twips" /\ call.twips = <<"7", "2", "0">>) =>
              outcome[i].points = <<36>>
        /\ (outcome[i].of = "drawing" /\ call.drawing.hasExtent) =>
              /\ NearestExtent(outcome[i].size.width, call.drawing.cx)
              /\ NearestExtent(outcome[i].size.height, call.drawing.cy)
        /\ (outcome[i].of = "drawing" /\ call.drawing.hasExtent
              /\ call.drawing.cx = <<"9", "1", "4", "4", "0", "0">>) =>
              outcome[i].size.width = <<72>>
        /\ (outcome[i].of = "drawing" /\ ~call.drawing.hasExtent) =>
              outcome[i].size = [width |-> <<100>>, height |-> <<100>>]

\* 710 twips lie between 35 and 36 points and 6350 EMU between 0 and 1 point: both
\* are rounded, and both go up
C12_Witness ==
    /\ call.twips = <<"7", "1", "0">>
    /\ call.drawing.cx = <<"6", "3", "5", "0">>
    /\ call.drawing.cy = <<"9", "1", "4", "4", "0", "0">>
    /\ \E i, j \in 1..Len(outcome) :
          /\ outcome[i].of = "twips" /\ outcome[i].points = <<36>>
          /\ outcome[j].of = "drawing"
          /\ outcome[j].size = [width |-> <<1>>, height |-> <<72>>]

-----------------------------------------------------------------------------
(* C13: for every file processFile accepts, outputFilename ends with       *)
(* '.udf' and is the file's name with its .docx extension replaced by      *)
(* '.udf'.                                                                 *)

EndsWith(s, suffix) ==
    /\ Len(s) >= Len(suffix)
    /\ SubSeq(s, Len(s) - Len(suffix) + 1, Len(s)) = suffix

\* the name without its extension and the dot before it
Stem(name) == SubSeq(name, 1, Len(name) - Len(afterLastDot(name)) - 1)

C13_OutputFilenameIsUdf ==
    selectedFile # <<>> =>
        /\ EndsWith(outputFilename, DotUdf)
        /\ outputFilename = Stem(selectedFile[1].name) \o DotUdf

\* what does hold: a name that holds .docx once, in lower case and at its end, gets .udf
C13_SingleLowerCaseExtensionIsReplaced ==
    (/\ selectedFile # <<>>
     /\ occurrences(selectedFile[1].name, DotDocx) = {Len(selectedFile[1].name) - 4}) =>
        /\ EndsWith(outputFilename, DotUdf)
        /\ outputFilename = Stem(selectedFile[1].name) \o DotUdf

\* a name that holds .docx twice keeps its extension: d.docx.docx becomes d.udf.docx
C13_SecondExtensionKept ==
    (selectedFile # <<>> /\ selectedFile[1].name = <<"d">> \o DotDocx \o DotDocx) =>
        outputFilename = <<"d">> \o DotUdf \o DotDocx

-----------------------------------------------------------------------------
(* One UdfGenerator used for several documents: generate() called again    *)
(* and again on the same instance, as the page does with this.generator.   *)
(* call holds the documents given so far.                                  *)

ReuseDocuments ==
    {[elements |-> d] :
        d \in {<<>>}
              \cup {<<Paragraph(<<r>>)>> : r \in Runs}
              \cup {<<Paragraph(<<FootnoteRefRun(<<"1">>, <<"x">>), PageBreakRun>>),
                      Paragraph(<<FootnoteRefRun(<<"1">>, <<"x">>)>>)>>,
                    <<Table(<<Row(<<Cell("none", <<Paragraph(<<TabRun>>)>>)>>)>>)>>}}

\* generate(doc) runs from its reset to generateXml()
GenerateDocument ==
    /\ Len(call) < MaxGenerations
    /\ \E doc \in ReuseDocuments :
          /\ Becomes(generateOn(Current, doc))
          /\ document' = doc.elements
          /\ call' = Append(call, doc)
    /\ pc' = "done"
    /\ UNCHANGED <<appVars, outcome>>

NextReuse == GenerateDocument

SpecReuse == Init /\ [][NextReuse]_vars

-----------------------------------------------------------------------------
(* C14: generate(B) called after generate(A) on the same UdfGenerator      *)
(* leaves the buffer, the element list, the cursor and the pending         *)
(* footnotes that generate(B) leaves on a new instance.                    *)

C14_FreshPerConversion ==
    call # <<>> => Current = generate(Last(call))

\* B follows an A that has left text, elements and pending footnotes behind
C14_Witness ==
    /\ Len(call) = 2
    /\ call[1] = [elements |-> <<Paragraph(<<FootnoteRefRun(<<"1">>, <<"x">>)>>)>>]
    /\ call[2] = [elements |-> <<Paragraph(<<TextRun(<<"a", "b">>)>>)>>]
    /\ content = <<"a", "b">>
    /\ Len(elements) = 1
    /\ collectedFootnotes = <<>>

-----------------------------------------------------------------------------
(* C15: the cursor is the length of the buffer: after every completed      *)
(* processParagraph, processTable and appendFootnotesSection call, and in  *)
(* the final state of generate() after the empty-document placeholder      *)
(* step, currentOffset equals content.length.                              *)

C15_CursorIsBufferLength ==
    pc \in {"loop", "done"} => currentOffset = Len(content)

\* what does hold: the cursor is the length of the buffer after every call made in
\* the loop, and at the end unless the placeholder step has written the buffer
C15_CursorIsBufferLengthBeforePlaceholder ==
    /\ pc = "loop" => currentOffset = Len(content)
    /\ (pc = "done" /\ currentOffset # Len(content)) =>
          /\ content = <<ZWSP>>
          /\ currentOffset = 0

-----------------------------------------------------------------------------
(* C16: when processParagraph reaches a page-break run it emits, in this   *)
(* order, the paragraph element for the runs collected so far, the pending *)
(* footnote section if any, and the page-break marker, and returns: no run *)
(* placed after the break changes the buffer, the cursor, the element list *)
(* or the pending footnotes.                                               *)

RECURSIVE RunsBeforeBreak(_)
RunsBeforeBreak(runs) ==
    IF runs = <<>> \/ Head(runs).type = "pageBreak" THEN <<>>
    ELSE <<Head(runs)>> \o RunsBeforeBreak(Tail(runs))

\* the paragraph cut after its first page-break run
ThroughBreak(paragraph) ==
    [paragraph EXCEPT !.runs = RunsBeforeBreak(paragraph.runs) \o <<PageBreakRun>>]

\* the run puts text into the buffer
Collects(run) ==
    \/ run.type \in {"text", "tab", "break", "footnoteRef"}
    \/ run.type = "image" /\ run.data # Null

\* the run gives the paragraph a content, tab or image element
GivesElement(run) ==
    \/ run.type \in {"text", "tab", "footnoteRef"}
    \/ run.type = "image" /\ run.data # Null

SectionLength(pending) == IF pending = <<>> THEN 0 ELSE Len(pending) + 2

\* the elements a page-break paragraph adds: the paragraph element when wrapped holds,
\* the section of the pending footnotes, the marker
BreakEmits(paragraph, wrapped) ==
    LET pending == collectedFootnotes \o FootnotesBeforeBreak(paragraph.runs)
        first == Len(elements) + 1
        n == Len(elements')
    IN  /\ n = Len(elements) + (IF wrapped THEN 1 ELSE 0) + SectionLength(pending) + 1
        /\ SubSeq(elements', 1, Len(elements)) = elements
        /\ wrapped => elements'[first].kind = "paragraph"
        /\ pending # <<>> =>
              IsFootnoteSection(SubSeq(elements', n - Len(pending) - 2, n - 1),
                                pending, content')
        /\ elements'[n] = PageBreakElement

RunsAfterBreakIgnored(paragraph) ==
    Current' = processParagraph(Current, ThroughBreak(paragraph))

C16_PageBreakEmitsAndReturns ==
    [][(ParagraphStep /\ HasRun(Last(document'), "pageBreak")) =>
          /\ BreakEmits(Last(document'),
                        \E i \in 1..Len(RunsBeforeBreak(Last(document').runs)) :
                            Collects(RunsBeforeBreak(Last(document').runs)[i]))
          /\ RunsAfterBreakIgnored(Last(document'))]_vars

\* what does hold: the paragraph element is emitted when a run before the break has
\* given it an element, and not for line breaks alone; the rest is as stated
C16_PageBreakWrapsElements ==
    [][(ParagraphStep /\ HasRun(Last(document'), "pageBreak")) =>
          /\ BreakEmits(Last(document'),
                        \E i \in 1..Len(RunsBeforeBreak(Last(document').runs)) :
                            GivesElement(RunsBeforeBreak(Last(document').runs)[i]))
          /\ RunsAfterBreakIgnored(Last(document'))]_vars

-----------------------------------------------------------------------------
(* Table cells run by run: documents made of one-cell tables whose cell    *)
(* has no paragraph, one paragraph of up to two runs, or two paragraphs of *)
(* up to one run.                                                          *)

CellParagraphs ==
    {<<>>}
        \cup {<<Paragraph(rs)>> : rs \in RunSeqs(2)}
        \cup {<<Paragraph(rs), Paragraph(ss)>> : rs \in RunSeqs(1), ss \in RunSeqs(1)}

CellTables == {Table(<<Row(<<Cell("none", ps)>>)>>) : ps \in CellParagraphs}

\* the loop reaches a table of one cell
ProcessCellTable ==
    /\ pc = "loop"
    /\ Len(document) < MaxCellTables
    /\ \E table \in CellTables :
          /\ Becomes(processTable(Current, table))
          /\ document' = Append(document, table)
    /\ pc' = "loop"
    /\ UNCHANGED <<appVars, fnVars>>

NextCells == Generate \/ ProcessCellTable \/ Finish

SpecCells == Init /\ [][NextCells]_vars

-----------------------------------------------------------------------------
(* C17: a run inside a cell paragraph (text, tab, resolved image, line     *)
(* break, footnote reference) appends the characters, advances the cursor  *)
(* and records the element that the run would in a top-level paragraph;    *)
(* consecutive paragraphs of a cell are separated by one newline and a     *)
(* cell without paragraphs gets one single-space placeholder.              *)

\* the newline processTableCell puts between two paragraphs of a cell
newlineUnlessLast(st, last) ==
    IF last THEN st
    ELSE [st EXCEPT !.content = @ \o <<NL>>, !.currentOffset = @ + 1]

\* the paragraphs given one after the other to processParagraph, a newline between
RECURSIVE AsTopLevel(_, _)
AsTopLevel(st, ps) ==
    IF ps = <<>> THEN st
    ELSE AsTopLevel(newlineUnlessLast(processParagraph(st, Head(ps)), Len(ps) = 1), Tail(ps))

\* the cell rendered by this step, and what it was rendered from
RenderedCell == Last(elements').rows[1].cells[1]
SourceCell == Last(document').rows[1].cells[1]

SameAsTopLevel(top) ==
    /\ content' = top.content
    /\ currentOffset' = top.currentOffset
    /\ collectedFootnotes' = top.collectedFootnotes
    /\ Len(RenderedCell.paragraphs) = Len(SourceCell.paragraphs)
    /\ \A i \in 1..Len(SourceCell.paragraphs) :
          RenderedCell.paragraphs[i] = top.elements[Len(elements) + i]

EmptyCellGetsSpace ==
    /\ content' = content \o <<SP>>
    /\ currentOffset' = currentOffset + 1
    /\ collectedFootnotes' = collectedFootnotes
    /\ RenderedCell.paragraphs
           = <<PlainParagraphElement(<<ContentElement(currentOffset, 1, 12, FALSE)>>)>>

\* every paragraph has runs and every run is of a kind in kinds
AllRuns(ps, kinds(_)) ==
    \A i \in 1..Len(ps) :
        /\ ps[i].runs # <<>>
        /\ \A j \in 1..Len(ps[i].runs) : kinds(ps[i].runs[j])

C17_CellRunsAsTopLevel ==
    [][TableStep =>
          /\ SourceCell.paragraphs = <<>> => EmptyCellGetsSpace
          /\ (SourceCell.paragraphs # <<>> /\ AllRuns(SourceCell.paragraphs, Collects)) =>
                SameAsTopLevel(AsTopLevel(Current, SourceCell.paragraphs))]_vars

\* what does hold: the same with the line break left out of the run kinds
C17_CellRunsWithElementsAsTopLevel ==
    [][TableStep =>
          /\ SourceCell.paragraphs = <<>> => EmptyCellGetsSpace
          /\ (SourceCell.paragraphs # <<>> /\ AllRuns(SourceCell.paragraphs, GivesElement)) =>
                SameAsTopLevel(AsTopLevel(Current, SourceCell.paragraphs))]_vars

\* a line break in a cell appends nothing: text, break, text gives the two texts joined
C17_CellDropsLineBreak ==
    [][(TableStep /\ SourceCell.paragraphs
                        = <<Paragraph(<<TextRun(<<"a", "b">>), BreakRun>>)>>) =>
          content' = content \o <<"a", "b">>]_vars

-----------------------------------------------------------------------------
(* Tables and their column grid: up to two explicit column widths, and up  *)
(* to two rows of up to two empty cells.                                   *)

ColumnWidths == UNION {[1..k -> {0, 36, 72}] : k \in 0..2}

GridRows ==
    {<<>>, <<Row(<<>>)>>, <<Row(<<Cell("none", <<>>)>>)>>,
     <<Row(<<Cell("none", <<>>), Cell("none", <<>>)>>)>>,
     <<Row(<<>>), Row(<<Cell("none", <<>>)>>)>>,
     <<Row(<<Cell("none", <<>>)>>), Row(<<Cell("none", <<>>), Cell("none", <<>>)>>)>>}

GridTables == {[Table(rs) EXCEPT !.columnWidths = ws] : rs \in GridRows, ws \in ColumnWidths}

\* the loop reaches a table
ProcessGridTable ==
    /\ pc = "loop"
    /\ Len(document) < MaxGridTables
    /\ \E table \in GridTables :
          /\ Becomes(processTable(Current, table))
          /\ document' = Append(document, table)
    /\ pc' = "loop"
    /\ UNCHANGED <<appVars, fnVars>>

NextColumns == Generate \/ ProcessGridTable \/ Finish

SpecColumns == Init /\ [][NextColumns]_vars

-----------------------------------------------------------------------------
(* C18: processTable emits columnCount equal to the number of explicit     *)
(* column widths when there is at least one, otherwise the number of cells *)
(* of the first row, otherwise 1; the emitted columnCount is at least 1    *)
(* and columnSpans has exactly columnCount entries.                        *)

ExpectedColumnCount(table) ==
    IF Len(table.columnWidths) >= 1 THEN Len(table.columnWidths)
    ELSE IF Len(table.rows) >= 1 THEN Len(table.rows[1].cells)
    ELSE 1

C18_ColumnCount ==
    [][TableStep =>
          /\ Last(elements').columnCount = ExpectedColumnCount(Last(document'))
          /\ Last(elements').columnCount >= 1
          /\ Len(Last(elements').columnSpans) = Last(elements').columnCount]_vars

\* what does hold: the count is as computed and columnSpans has that many entries, but
\* the count is 0 when there are no widths and the first row has no cell
C18_ColumnCountOrZero ==
    [][TableStep =>
          /\ Last(elements').columnCount = ExpectedColumnCount(Last(document'))
          /\ Len(Last(elements').columnSpans) = Last(elements').columnCount
          /\ Last(elements').columnCount = 0 <=>
                /\ Last(document').columnWidths = <<>>
                /\ Last(document').rows # <<>>
                /\ Last(document').rows[1].cells = <<>>]_vars

-----------------------------------------------------------------------------
(* parseRun.  A w:r of the source is described by what its four            *)
(* getElementsByTagNameNS calls find: the drawings (each by the data its   *)
(* reference resolves to), the text contents of the w:t elements, the      *)
(* number of w:tab elements and the w:type attribute of each w:br (Null    *)
(* when it has none).  The result is <<>> (null) or <<run>>.               *)

RunSources ==
    {[drawings |-> ds, texts |-> ts, tabs |-> n, breaks |-> bs] :
        ds \in {<<>>, <<"DATA">>, <<Null>>},
        ts \in {<<>>, <<<<>>>>, <<<<"a", "b">>>>, <<<<"a">>, <<"b">>>>},
        n \in {0, 1},
        bs \in {<<>>, <<Null>>, <<"page">>, <<"column">>, <<"column", "page">>,
                <<"page", "column">>}}

\* parseDrawing: the image run (its width and height are computed by imageSize)
parseDrawing(drawing) == ImageRun(drawing)

\* the rest of parseRun with the text tested before the markers
parseRunTextFirst(run) ==
    IF Len(run.drawings) > 0 THEN <<parseDrawing(run.drawings[1])>>
    ELSE IF Join(run.texts) # <<>> THEN <<TextRun(Join(run.texts))>>
    ELSE IF run.tabs > 0 THEN <<TabRun>>
    ELSE IF Len(run.breaks) > 0
    THEN IF run.breaks[1] = "page" THEN <<PageBreakRun>> ELSE <<BreakRun>>
    ELSE <<>>

\* parseRun without "if (!text) return null"
parseRunKeepsEmpty(run) ==
    IF Len(run.drawings) > 0 THEN <<parseDrawing(run.drawings[1])>>
    ELSE IF run.tabs > 0 THEN <<TabRun>>
    ELSE IF Len(run.breaks) > 0
    THEN IF run.breaks[1] = "page" THEN <<PageBreakRun>> ELSE <<BreakRun>>
    ELSE <<TextRun(Join(run.texts))>>

parseRun(run) ==
    IF Len(run.drawings) > 0 THEN <<parseDrawing(run.drawings[1])>>
    ELSE IF run.tabs > 0 THEN <<TabRun>>
    ELSE IF Len(run.breaks) > 0
    THEN IF run.breaks[1] = "page" THEN <<PageBreakRun>> ELSE <<BreakRun>>
    ELSE IF Join(run.texts) = <<>> THEN <<>>
    ELSE <<TextRun(Join(run.texts))>>

-----------------------------------------------------------------------------
(* Numbering of a paragraph, from the w:numPr of the source to the list    *)
(* attributes of the paragraph element.  A child element of w:numPr is     *)
(* <<>> when absent and <<[val |-> v]>> when present, where v is <<>> when  *)
(* the element has no w:val attribute and <<text>> when it has one.        *)

NoElement == <<>>

Element(v) == <<[val |-> v]>>

Values(texts) == {<<>>} \cup {<<t>> : t \in texts}

LevelTexts == {<<"0">>, <<"2">>}

NumIdTexts == {<<"0">>, <<"1">>, <<"2">>, <<"3">>, <<"1", "0">>, <<"-", "1">>, <<"x">>}

NumPrs ==
    {<<>>} \cup
    {<<[ilvl |-> l, numId |-> n]>> :
        l \in {NoElement} \cup {Element(v) : v \in Values(LevelTexts)},
        n \in {NoElement} \cup {Element(v) : v \in Values(NumIdTexts)}}

\* a w:r that holds only text, and one that holds only a page break
TextSource(t) == [drawings |-> <<>>, texts |-> <<t>>, tabs |-> 0, breaks |-> <<>>]

PageBreakSource == [drawings |-> <<>>, texts |-> <<>>, tabs |-> 0, breaks |-> <<"page">>]

ParagraphSources ==
    {[numPr |-> np, runs |-> rs] :
        np \in NumPrs,
        rs \in {<<>>, <<TextSource(<<"a", "b">>)>>,
                <<TextSource(<<"a", "b">>), PageBreakSource>>}}

\* ilvl.getAttribute('w:val') || '0'
valueOrZero(v) == IF v = <<>> THEN <<"0">> ELSE orZero(v[1])

\* "Numbering" of parseParagraph
parseNumbering(numPr) ==
    IF numPr # <<>> /\ numPr[1].ilvl # NoElement /\ numPr[1].numId # NoElement
    THEN <<[level |-> parseInt(valueOrZero(numPr[1].ilvl[1].val)),
            numId |-> numPr[1].numId[1].val]>>
    ELSE <<>>

\* "Get runs" of parseParagraph: the runs parseRun returned, null left out
RECURSIVE parseRuns(_)
parseRuns(runs) ==
    IF runs = <<>> THEN <<>> ELSE parseRun(Head(runs)) \o parseRuns(Tail(runs))

parseParagraph(para) ==
    [Paragraph(parseRuns(para.runs)) EXCEPT !.numbering = parseNumbering(para.numPr)]

InitNumbering ==
    /\ Constructed
    /\ call \in ParagraphSources
    /\ outcome = <<>>

\* extractElements calls parseParagraph on the w:p
ParseParagraph ==
    /\ outcome = <<>>
    /\ outcome' = <<parseParagraph(call)>>
    /\ UNCHANGED <<genVars, appVars, call>>

\* the loop reaches the parsed paragraph
ProcessParsedParagraph ==
    /\ pc = "loop"
    /\ outcome # <<>>
    /\ document = <<>>
    /\ Becomes(processParagraph(Current, outcome[1]))
    /\ document' = <<outcome[1]>>
    /\ pc' = "loop"
    /\ UNCHANGED <<appVars, fnVars>>

NextNumbering == ParseParagraph \/ Generate \/ ProcessParsedParagraph \/ Finish

SpecNumbering == InitNumbering /\ [][NextNumbering]_vars

-----------------------------------------------------------------------------
(* C19: a paragraph element carries list attributes if and only if the     *)
(* source paragraph gave both a level and a list id; when present, exactly *)
(* one of Bulleted (list id even) or Numbered (list id odd) is emitted,    *)
(* never both and never neither, with the ListLevel and ListId of the      *)
(* paragraph.                                                              *)

GaveBoth(para) ==
    /\ para.numPr # <<>>
    /\ para.numPr[1].ilvl # NoElement
    /\ para.numPr[1].numId # NoElement

Has(attrs, name) == \E i \in 1..Len(attrs) : attrs[i].name = name

ValueOf(attrs, name) == attrs[CHOOSE i \in 1..Len(attrs) : attrs[i].name = name].value

\* the numeric value of the list id: <<>> when it has none
ListIdValue(para) ==
    IF para.numPr[1].numId[1].val = <<>> THEN <<>>
    ELSE parseInt(para.numPr[1].numId[1].val[1])

Even(n) == n # <<>> /\ n[1] % 2 = 0

Odd(n) == n # <<>> /\ n[1] % 2 = 1

\* the paragraph element the call pushed
PushedParagraph == elements'[Len(elements) + 1]

C19_ListAttributes ==
    [][ParagraphStep =>
          /\ PushedParagraph.kind = "paragraph"
          /\ PushedParagraph.list # <<>> <=> GaveBoth(call)
          /\ GaveBoth(call) =>
                /\ Has(PushedParagraph.list, "Bulleted") # Has(PushedParagraph.list, "Numbered")
                /\ Has(PushedParagraph.list, "Bulleted") <=> Even(ListIdValue(call))
                /\ Has(PushedParagraph.list, "Numbered") <=> Odd(ListIdValue(call))
                /\ ValueOf(PushedParagraph.list, "ListLevel") = Last(document').numbering[1].level
                /\ ValueOf(PushedParagraph.list, "ListId") = Last(document').numbering[1].numId]_vars

\* what does hold: Numbered is emitted for every list id that is not even, a list id
\* without a numeric value included
C19_ListAttributesNumberedUnlessEven ==
    [][ParagraphStep =>
          /\ PushedParagraph.kind = "paragraph"
          /\ PushedParagraph.list # <<>> <=> GaveBoth(call)
          /\ GaveBoth(call) =>
                /\ Has(PushedParagraph.list, "Bulleted") # Has(PushedParagraph.list, "Numbered")
                /\ Has(PushedParagraph.list, "Bulleted") <=> Even(ListIdValue(call))
                /\ ValueOf(PushedParagraph.list, "ListLevel") = Last(document').numbering[1].level
                /\ ValueOf(PushedParagraph.list, "ListId") = Last(document').numbering[1].numId]_vars

\* a list id without a w:val attribute is emitted as a Numbered list with the id null
C19_NumberedWithoutListId ==
    [][ParagraphStep /\ GaveBoth(call) /\ call.numPr[1].numId[1].val = <<>> =>
          /\ Has(PushedParagraph.list, "Numbered")
          /\ ValueOf(PushedParagraph.list, "ListId") = <<>>]_vars

-----------------------------------------------------------------------------
(* parseRun applied to the runs examined *)

InitRuns ==
    /\ Constructed
    /\ call \in RunSources
    /\ outcome = <<>>

\* parseParagraph calls parseRun on a w:r; outcome holds what it returned
ParseRun ==
    /\ outcome = <<>>
    /\ outcome' = <<parseRun(call)>>
    /\ UNCHANGED <<genVars, appVars, call>>

NextRuns == ParseRun

SpecRuns == InitRuns /\ [][NextRuns]_vars

-----------------------------------------------------------------------------
(* C20: parseRun classifies a run by first match: a drawing gives an image *)
(* run; otherwise a tab marker gives a tab run; otherwise a break marker   *)
(* gives a page-break run when its type is 'page' and a line-break run for *)
(* any other type; otherwise non-empty text gives a text run; otherwise    *)
(* the run is dropped.  One outcome results per run, and a run with a tab  *)
(* or break marker gives no text run even when it also holds text.         *)

Returned == outcome[1]

ReturnedType == IF Returned = <<>> THEN "dropped" ELSE Returned[1].type

ExpectedType(run) ==
    IF run.drawings # <<>> THEN "image"
    ELSE IF run.tabs >= 1 THEN "tab"
    ELSE IF run.breaks # <<>> THEN (IF Head(run.breaks) = "page" THEN "pageBreak" ELSE "break")
    ELSE IF \E i \in 1..Len(run.texts) : run.texts[i] # <<>> THEN "text"
    ELSE "dropped"

C20_ParseRunPriority ==
    outcome # <<>> =>
        /\ Len(Returned) <= 1
        /\ ReturnedType = ExpectedType(call)
        /\ ReturnedType = "text" => Returned[1].text = Join(call.texts)
        /\ (call.tabs >= 1 \/ call.breaks # <<>>) => ReturnedType # "text"

\* a run with text and a tab marker gave a tab run, one with text and a break of
\* another type than 'page' a line-break run
C20_Witness ==
    /\ outcome # <<>>
    /\ call.drawings = <<>>
    /\ call.texts = <<<<"a", "b">>>>
    /\ call.tabs = 0
    /\ call.breaks = <<"column", "page">>
    /\ Returned = <<BreakRun>>

-----------------------------------------------------------------------------
(* extractElements on the children of w:body.  A child is a w:p (a         *)
(* paragraph source), a w:tbl without w:tblGrid (its rows of cells, each   *)
(* cell with its w:gridSpan and w:vMerge elements and its paragraphs) or   *)
(* an element of another name.                                             *)

RECURSIVE parseParagraphs(_)
parseParagraphs(paras) ==
    IF paras = <<>> THEN <<>>
    ELSE <<parseParagraph(Head(paras))>> \o parseParagraphs(Tail(paras))

\* gridSpan.getAttribute('w:val') || '1'
valueOrOne(v) == IF v = <<>> \/ v[1] = <<>> THEN <<"1">> ELSE v[1]

\* "Grid span (colspan)" of parseTableCell
parseColspan(gridSpan) ==
    IF gridSpan = NoElement THEN <<1>> ELSE parseInt(valueOrOne(gridSpan[1].val))

\* "Vertical merge" of parseTableCell
parseVMerge(vMerge) ==
    IF vMerge = NoElement THEN "none"
    ELSE IF vMerge[1].val = <<>> \/ vMerge[1].val[1] = <<>> THEN "continue"
    ELSE IF vMerge[1].val[1] = <<"continue">> THEN "continue"
    ELSE IF vMerge[1].val[1] = <<"restart">> THEN "restart"
    ELSE "none"

parseTableCell(tc) ==
    [Cell(parseVMerge(tc.vMerge), parseParagraphs(tc.paragraphs))
        EXCEPT !.colspan = parseColspan(tc.gridSpan)]

RECURSIVE parseTableCells(_)
parseTableCells(tcs) ==
    IF tcs = <<>> THEN <<>> ELSE <<parseTableCell(Head(tcs))>> \o parseTableCells(Tail(tcs))

parseTableRow(tr) == Row(parseTableCells(tr.cells))

RECURSIVE parseTableRows(_)
parseTableRows(trs) ==
    IF trs = <<>> THEN <<>> ELSE <<parseTableRow(Head(trs))>> \o parseTableRows(Tail(trs))

parseTable(tbl) == Table(parseTableRows(tbl.rows))

\* the loop of extractElements over body.children
RECURSIVE parseChildren(_)
parseChildren(children) ==
    IF children = <<>> THEN <<>>
    ELSE (IF Head(children).localName = "p" THEN <<parseParagraph(Head(children).p)>>
          ELSE IF Head(children).localName = "tbl" THEN <<parseTable(Head(children).tbl)>>
          ELSE <<>>) \o parseChildren(Tail(children))

\* the w:r examined: text, an empty w:t, nothing at all, a drawing whose reference is
\* not resolved and one whose reference is
BodyRunSources ==
    {TextSource(<<"a", "b">>), TextSource(<<>>),
     [drawings |-> <<>>, texts |-> <<>>, tabs |-> 0, breaks |-> <<>>],
     [drawings |-> <<Null>>, texts |-> <<>>, tabs |-> 0, breaks |-> <<>>],
     [drawings |-> <<"DATA">>, texts |-> <<"a">>, tabs |-> 0, breaks |-> <<>>]}

BodyParagraphSources ==
    {[numPr |-> <<>>, runs |-> rs] :
        rs \in {<<>>} \cup {<<r>> : r \in BodyRunSources}
                \cup {<<r, TextSource(<<"a", "b">>)>> : r \in BodyRunSources}}

GridSpans == {NoElement} \cup {Element(v) : v \in Values({<<"0">>, <<"2">>, <<"x">>})}

VMerges == {NoElement} \cup {Element(v) : v \in Values({<<"r", "e", "s", "t", "a", "r", "t">>})}

CellSources ==
    {[gridSpan |-> g, vMerge |-> m, paragraphs |-> ps] :
        g \in GridSpans, m \in VMerges,
        ps \in {<<>>} \cup {<<p>> : p \in BodyParagraphSources}}

NoChild == [localName |-> "sectPr", p |-> <<>>, tbl |-> <<>>]

ParagraphChild(p) == [localName |-> "p", p |-> p, tbl |-> <<>>]

TableChild(rows) == [localName |-> "tbl", p |-> <<>>, tbl |-> [rows |-> rows]]

BodyChildren ==
    {NoChild} \cup {ParagraphChild(p) : p \in BodyParagraphSources}
              \cup {TableChild(<<[cells |-> <<c>>]>>) : c \in CellSources}

BodySources ==
    {<<>>} \cup {<<c>> : c \in BodyChildren} \cup {<<c, NoChild>> : c \in BodyChildren}

InitBody ==
    /\ Constructed
    /\ call \in BodySources
    /\ outcome = <<>>

\* parse() calls extractElements; outcome holds the elements of the returned model
ExtractElements ==
    /\ outcome = <<>>
    /\ outcome' = <<parseChildren(call)>>
    /\ UNCHANGED <<genVars, appVars, call>>

NextBody == ExtractElements

SpecBody == InitBody /\ [][NextBody]_vars

\* the paragraphs of a model: the top-level ones and those of the table cells
RECURSIVE ModelParagraphs(_)
ModelParagraphs(els) ==
    IF els = <<>> THEN <<>>
    ELSE (IF Head(els).type = "paragraph" THEN <<Head(els)>>
          ELSE Join([i \in 1..Len(Head(els).rows) |->
                        Join([j \in 1..Len(Head(els).rows[i].cells) |->
                                 Head(els).rows[i].cells[j].paragraphs])]))
         \o ModelParagraphs(Tail(els))

\* the cells of a model
RECURSIVE ModelCells(_)
ModelCells(els) ==
    IF els = <<>> THEN <<>>
    ELSE (IF Head(els).type = "table"
          THEN Join([i \in 1..Len(Head(els).rows) |-> Head(els).rows[i].cells])
          ELSE <<>>)
         \o ModelCells(Tail(els))

-----------------------------------------------------------------------------
(* C21: in every model returned by parse, every run of type text, in       *)
(* top-level paragraphs and in table-cell paragraphs, has non-empty text.  *)

C21_TextRunsNonEmpty ==
    outcome # <<>> =>
        \A i \in 1..Len(ModelParagraphs(outcome[1])) :
            \A j \in 1..Len(ModelParagraphs(outcome[1])[i].runs) :
                ModelParagraphs(outcome[1])[i].runs[j].type = "text"
                    => ModelParagraphs(outcome[1])[i].runs[j].text # <<>>

\* a cell paragraph whose source holds a w:r with an empty w:t and a w:r with text
\* was parsed to the text run alone
C21_Witness ==
    /\ outcome # <<>>
    /\ Len(call) = 1
    /\ call[1].localName = "tbl"
    /\ call[1].tbl.rows[1].cells[1].paragraphs
          = <<[numPr |-> <<>>, runs |-> <<TextSource(<<>>), TextSource(<<"a", "b">>)>>]>>
    /\ ModelParagraphs(outcome[1]) = <<Paragraph(<<TextRun(<<"a", "b">>)>>)>>

-----------------------------------------------------------------------------
(* C22: in every model returned by parse, every table cell has colspan at  *)
(* least 1, for any explicit span value of the source, and 1 when no span  *)
(* is given.                                                               *)

C22_ColspanAtLeastOne ==
    outcome # <<>> =>
        \A i \in 1..Len(ModelCells(outcome[1])) :
            /\ ModelCells(outcome[1])[i].colspan # <<>>
            /\ ModelCells(outcome[1])[i].colspan[1] >= 1

\* what does hold: the colspan is 1 when no span value is given, and else parseInt of
\* the value as it is written, whatever that gives
C22_ColspanIsParsedValue ==
    outcome # <<>> /\ Len(call) >= 1 /\ call[1].localName = "tbl" =>
        ModelCells(outcome[1])[1].colspan
            = (IF call[1].tbl.rows[1].cells[1].gridSpan \in {NoElement, Element(<<>>)}
               THEN <<1>>
               ELSE parseInt(call[1].tbl.rows[1].cells[1].gridSpan[1].val[1]))

-----------------------------------------------------------------------------
(* C23: a footnote flush emits, in this order, one blank-line paragraph    *)
(* element, one separator-line paragraph element, then one paragraph       *)
(* element per pending footnote in pending order, each holding a           *)
(* superscript element that covers exactly the text 'label. ' followed by  *)
(* a regular element that covers exactly the body text; the startOffset    *)
(* and length of each of these elements address exactly the characters it  *)
(* appended to the buffer.                                                 *)

\* the characters a flush of fns appends
RECURSIVE FootnoteLines(_)
FootnoteLines(fns) ==
    IF fns = <<>> THEN <<>>
    ELSE <<NL>> \o Head(fns).number \o <<".", SP>> \o Head(fns).text \o FootnoteLines(Tail(fns))

SectionText(fns) == <<NL>> \o separator \o FootnoteLines(fns)

\* where the label of the i-th footnote begins, in a section that begins at base
LabelStart(fns, i, base) == base + Len(SectionText(SubSeq(fns, 1, i - 1))) + 1

\* es are the elements of a flush of fns that appended its characters at the end of buf
IsFlush(es, fns, buf) ==
    /\ Len(es) = Len(fns) + 2
    /\ Len(buf) >= Len(SectionText(fns))
    /\ SubSeq(buf, Len(buf) - Len(SectionText(fns)) + 1, Len(buf)) = SectionText(fns)
    /\ \A i \in 1..Len(es) : es[i].kind = "paragraph"
    /\ Len(es[1].children) = 1
    /\ es[1].children[1].startOffset = Len(buf) - Len(SectionText(fns))
    /\ es[1].children[1].length = 1
    /\ Slice(buf, es[1].children[1]) = <<NL>>
    /\ Len(es[2].children) = 1
    /\ es[2].children[1].startOffset = Len(buf) - Len(SectionText(fns)) + 1
    /\ es[2].children[1].length = Len(separator)
    /\ Slice(buf, es[2].children[1]) = separator
    /\ \A i \in 1..Len(fns) :
          /\ Len(es[i + 2].children) = 2
          /\ es[i + 2].children[1].superscript
          /\ es[i + 2].children[1].startOffset
                = LabelStart(fns, i, Len(buf) - Len(SectionText(fns)))
          /\ es[i + 2].children[1].length = Len(fns[i].number) + 2
          /\ Slice(buf, es[i + 2].children[1]) = fns[i].number \o <<".", SP>>
          /\ ~es[i + 2].children[2].superscript
          /\ es[i + 2].children[2].startOffset
                = es[i + 2].children[1].startOffset + es[i + 2].children[1].length
          /\ es[i + 2].children[2].length = Len(fns[i].text)
          /\ Slice(buf, es[i + 2].children[2]) = fns[i].text

\* the footnotes pending when the page break of the paragraph is reached
PendingAtBreak == collectedFootnotes \o FootnotesBeforeBreak(Last(document').runs)

C23_FootnoteFlush ==
    [][/\ (ParagraphStep /\ HasRun(Last(document'), "pageBreak") /\ PendingAtBreak # <<>>) =>
            /\ Len(elements') >= Len(PendingAtBreak) + 3
            /\ IsFlush(SubSeq(elements', Len(elements') - Len(PendingAtBreak) - 2,
                              Len(elements') - 1),
                       PendingAtBreak, content')
       /\ (FinishStep /\ collectedFootnotes # <<>>) =>
            /\ Len(elements') = Len(elements) + Len(collectedFootnotes) + 2
            /\ IsFlush(SubSeq(elements', Len(elements) + 1, Len(elements')),
                       collectedFootnotes, content')]_vars

\* two footnotes, the second with an empty label and an empty body, flushed at the end
C23_Witness ==
    /\ pc = "done"
    /\ document = <<Paragraph(<<FootnoteRefRun(<<"1">>, <<"x">>), FootnoteRefRun(<<>>, <<>>)>>)>>
    /\ Len(elements) = 5
    /\ elements[4].children[1].superscript
    /\ elements[5].children[2].length = 0

-----------------------------------------------------------------------------
(* The whole conversion of one body: extractElements gives the model, then *)
(* generate() processes its elements one by one.                           *)

\* the loop of generate() reaches the next element of the parsed model
ProcessParsedElement ==
    /\ pc = "loop"
    /\ outcome # <<>>
    /\ Len(document) < Len(outcome[1])
    /\ \E element \in {outcome[1][Len(document) + 1]} :
          /\ Becomes(IF element.type = "paragraph" THEN processParagraph(Current, element)
                     ELSE processTable(Current, element))
          /\ document' = Append(document, element)
    /\ pc' = "loop"
    /\ UNCHANGED <<appVars, fnVars>>

NextPipeline == ExtractElements \/ Generate \/ ProcessParsedElement \/ Finish

SpecPipeline == InitBody /\ [][NextPipeline]_vars

-----------------------------------------------------------------------------
(* C24: an image run whose data is unresolved is kept in the model         *)
(* returned by parse and is dropped only by the serializer: in a top-level *)
(* paragraph and in a table cell alike it changes neither the buffer, the  *)
(* cursor nor the element list, while an image run with resolved data      *)
(* appends exactly one placeholder character and one image element of      *)
(* length 1.                                                               *)

\* the data of the drawings of the source, in document order
RECURSIVE DrawingsOfRuns(_)
DrawingsOfRuns(runs) ==
    IF runs = <<>> THEN <<>>
    ELSE (IF Head(runs).drawings # <<>> THEN <<Head(Head(runs).drawings)>> ELSE <<>>)
         \o DrawingsOfRuns(Tail(runs))

RECURSIVE DrawingsOfParagraphs(_)
DrawingsOfParagraphs(paras) ==
    IF paras = <<>> THEN <<>>
    ELSE DrawingsOfRuns(Head(paras).runs) \o DrawingsOfParagraphs(Tail(paras))

RECURSIVE DrawingsOfBody(_)
DrawingsOfBody(children) ==
    IF children = <<>> THEN <<>>
    ELSE (IF Head(children).localName = "p" THEN DrawingsOfRuns(Head(children).p.runs)
          ELSE IF Head(children).localName = "tbl"
          THEN Join([i \in 1..Len(Head(children).tbl.rows) |->
                       Join([j \in 1..Len(Head(children).tbl.rows[i].cells) |->
                               DrawingsOfParagraphs(
                                   Head(children).tbl.rows[i].cells[j].paragraphs)])])
          ELSE <<>>)
         \o DrawingsOfBody(Tail(children))

\* the data of the image runs of some runs, in order
RECURSIVE ImagesOfRuns(_)
ImagesOfRuns(runs) ==
    IF runs = <<>> THEN <<>>
    ELSE (IF Head(runs).type = "image" THEN <<Head(runs).data>> ELSE <<>>)
         \o ImagesOfRuns(Tail(runs))

\* the data of the image runs of a model, in document order
ImagesOfModel(els) ==
    Join([i \in 1..Len(ModelParagraphs(els)) |-> ImagesOfRuns(ModelParagraphs(els)[i].runs)])

\* the runs without the image runs whose data is null
RECURSIVE WithoutUnresolved(_)
WithoutUnresolved(runs) ==
    IF runs = <<>> THEN <<>>
    ELSE (IF Head(runs).type = "image" /\ Head(runs).data = Null THEN <<>> ELSE <<Head(runs)>>)
         \o WithoutUnresolved(Tail(runs))

ResolvedParagraph(paragraph) == [paragraph EXCEPT !.runs = WithoutUnresolved(@)]

ResolvedCell(cell) ==
    [cell EXCEPT !.paragraphs = [k \in 1..Len(cell.paragraphs) |->
                                    ResolvedParagraph(cell.paragraphs[k])]]

ResolvedTable(table) ==
    [table EXCEPT !.rows =
        [i \in 1..Len(table.rows) |->
            Row([j \in 1..Len(table.rows[i].cells) |-> ResolvedCell(table.rows[i].cells[j])])]]

\* the number of image runs with resolved data the serializer goes through in a block
ResolvedIn(runs) == Len(SelectSeq(ImagesOfRuns(runs), LAMBDA data : data # Null))

ResolvedInCells(cells) ==
    Len(SelectSeq(ImagesOfModel(<<Table(<<Row(WithoutContinuation(cells))>>)>>),
                  LAMBDA data : data # Null))

ResolvedInBlock(element) ==
    IF element.type = "paragraph" THEN ResolvedIn(element.runs)
    ELSE ResolvedInCells(Join([i \in 1..Len(element.rows) |-> element.rows[i].cells]))

\* the elements pushed and the characters appended by the step
PushedLeaves == Leaves(SubSeq(elements', Len(elements) + 1, Len(elements')))

Appended == SubSeq(content', Len(content) + 1, Len(content'))

ImageLeaves == SelectSeq(PushedLeaves, LAMBDA leaf : leaf.kind = "image")

C24_UnresolvedImageDropped ==
    [][/\ (outcome = <<>> /\ outcome' # <<>>) =>
            ImagesOfModel(outcome'[1]) = DrawingsOfBody(call)
       /\ ParagraphStep =>
            /\ Becomes(processParagraph(Current, ResolvedParagraph(Last(document'))))
            /\ Len(ImageLeaves) = ResolvedInBlock(Last(document'))
       /\ TableStep =>
            /\ Becomes(processTable(Current, ResolvedTable(Last(document'))))
            /\ Len(ImageLeaves) = ResolvedInBlock(Last(document'))
       /\ (ParagraphStep \/ TableStep) =>
            /\ \A i \in 1..Len(ImageLeaves) :
                  /\ ImageLeaves[i].length = 1
                  /\ Slice(content', ImageLeaves[i]) = <<OBJ>>
            /\ Len(SelectSeq(Appended, LAMBDA c : c = OBJ)) = Len(ImageLeaves)]_vars

\* a cell paragraph that holds an unresolved image and a text was parsed and rendered:
\* the cell holds the text alone
C24_Witness ==
    /\ pc = "loop"
    /\ Len(call) = 1
    /\ call[1].localName = "tbl"
    /\ outcome # <<>>
    /\ document = outcome[1]
    /\ ImagesOfModel(document) = <<Null>>
    /\ ~document[1].rows[1].cells[1].vMergeContinue
    /\ content = <<"a", "b">>
    /\ currentOffset = 2

\* a top-level paragraph that holds a resolved image and a text was parsed and rendered
C24_WitnessResolved ==
    /\ pc = "loop"
    /\ outcome # <<>>
    /\ document = outcome[1]
    /\ document # <<>>
    /\ document[1].type = "paragraph"
    /\ ImagesOfModel(document) = <<"DATA">>
    /\ content = <<OBJ, "a", "b">>

-----------------------------------------------------------------------------
(* C25: within generate() the cursor never decreases, and every emitted    *)
(* content, tab or image element has startOffset >= 0 and startOffset +    *)
(* length <= buffer length at the end of the enclosing block operation;    *)
(* startOffsets are non-decreasing in emission order and the ranges of two *)
(* distinct elements never overlap.                                        *)

InBuffer(leaves, buf) ==
    \A i \in 1..Len(leaves) :
        /\ leaves[i].startOffset >= 0
        /\ leaves[i].length >= 0
        /\ leaves[i].startOffset + leaves[i].length <= Len(buf)

InOrder(leaves) ==
    \A i \in 1..Len(leaves) : \A j \in (i + 1)..Len(leaves) :
        /\ leaves[i].startOffset <= leaves[j].startOffset
        /\ leaves[i].startOffset + leaves[i].length <= leaves[j].startOffset

C25_RangesInOrderInsideBuffer ==
    [][pc = "loop" =>
          /\ currentOffset' >= currentOffset
          /\ InBuffer(Leaves(elements'), content')
          /\ InOrder(Leaves(elements'))]_vars

\* a footnote reference, an empty paragraph and the footnote section at the end: six
\* elements in order, the last one ending where the buffer ends
C25_Witness ==
    /\ pc = "done"
    /\ document = <<Paragraph(<<FootnoteRefRun(<<"1">>, <<"x">>)>>), Paragraph(<<>>)>>
    /\ Len(Leaves(elements)) = 6
    /\ currentOffset = Len(content)
    /\ Last(Leaves(elements)).startOffset = Len(content) - 1

-----------------------------------------------------------------------------
(* The DocxParser instance of the page, used for one package after the     *)
(* other.  this.relationships and this.images are maps, modelled as sets   *)
(* of [key, value]; a package is described by the relationships of its     *)
(* word/_rels/document.xml.rels, the files of its word/media folder and    *)
(* the r:embed of the drawings of its one paragraph.  The parser state and *)
(* what parse() has returned so far are kept in outcome; the images of a   *)
(* returned model are the parser's own this.images object, so what a       *)
(* caller reads from an earlier model is the map as it is now.             *)

put(map, key, value) == {e \in map : e.key # key} \cup {[key |-> key, value |-> value]}

\* map[key]: <<>> when undefined
get(map, key) == IF \E e \in map : e.key = key
                 THEN <<(CHOOSE e \in map : e.key = key).value>> ELSE <<>>

RECURSIVE putAll(_, _)
putAll(map, entries) ==
    IF entries = <<>> THEN map
    ELSE putAll(put(map, Head(entries).key, Head(entries).value), Tail(entries))

\* constructor: this.relationships = {}; this.images = {}
NewParser == [relationships |-> {}, images |-> {}]

\* parseRelationships, then extractImages
loadPackage(parser, package) ==
    [relationships |-> putAll(parser.relationships, package.rels),
     images |-> putAll(parser.images, package.media)]

\* target.replace('media/', '') for the targets examined
mediaName(target) == IF target = "media/a.png" THEN "a.png" ELSE target

\* "Get embedded image reference" of parseDrawing: the data, Null when not resolved
resolveEmbed(parser, embed) ==
    IF embed = <<>> \/ get(parser.relationships, embed[1]) = <<>> THEN Null
    ELSE IF get(parser.images, mediaName(get(parser.relationships, embed[1])[1])) = <<>> THEN Null
    ELSE get(parser.images, mediaName(get(parser.relationships, embed[1])[1]))[1]

\* extractElements for a body of one paragraph whose runs hold one drawing each
packageElements(parser, package) ==
    <<Paragraph([i \in 1..Len(package.embeds) |->
                    parseDrawing(resolveEmbed(parser, <<package.embeds[i]>>))])>>

\* parse(file) on a parser in the given state: the parser afterwards, the elements returned
parsePackage(parser, package) ==
    [parser |-> loadPackage(parser, package),
     elements |-> packageElements(loadPackage(parser, package), package)]

ParserPackages ==
    {[rels |-> r, media |-> m, embeds |-> e] :
        r \in {<<>>, <<[key |-> "rId1", value |-> "media/a.png"]>>},
        m \in {<<>>, <<[key |-> "a.png", value |-> "DATA"]>>, <<[key |-> "a.png", value |-> "DATB"]>>},
        e \in {<<>>, <<"rId1">>}}

InitParser ==
    /\ Constructed
    /\ call = <<>>
    /\ outcome = [parser |-> NewParser, returned |-> <<>>]

\* handleConvert calls this.parser.parse(file) on the parser made by the constructor
ParsePackage ==
    /\ Len(call) < MaxParses
    /\ \E package \in ParserPackages :
          /\ call' = Append(call, package)
          /\ outcome' = [parser |-> parsePackage(outcome.parser, package).parser,
                         returned |-> Append(outcome.returned,
                             [elements |-> parsePackage(outcome.parser, package).elements,
                              imagesWhenReturned |->
                                  parsePackage(outcome.parser, package).parser.images])]
    /\ UNCHANGED <<genVars, appVars>>

NextParser == ParsePackage

SpecParser == InitParser /\ [][NextParser]_vars

-----------------------------------------------------------------------------
(* C26: the model returned by parse depends only on the package given to   *)
(* that call: parsing B on an instance that has already parsed A gives the *)
(* same runs, the same image data and the same images map as parsing B on  *)
(* a new instance, and the model returned earlier for A is not changed by  *)
(* parsing B.                                                              *)

\* what a new DocxParser returns for the package
OnNewInstance(package) == parsePackage(NewParser, package)

C26_ParseDependsOnPackageOnly ==
    [][Len(call') = Len(call) + 1 =>
          /\ Last(outcome'.returned).elements = OnNewInstance(Last(call')).elements
          /\ outcome'.parser.images = OnNewInstance(Last(call')).parser.images
          /\ \A i \in 1..Len(outcome.returned) :
                /\ outcome'.returned[i].elements = outcome.returned[i].elements
                /\ outcome'.parser.images = outcome.returned[i].imagesWhenReturned]_vars

\* what does hold: the first package parsed by an instance gives what a new instance gives
C26_FirstParseDependsOnPackageOnly ==
    [][(call = <<>> /\ Len(call') = 1) =>
          /\ Last(outcome'.returned).elements = OnNewInstance(Last(call')).elements
          /\ outcome'.parser.images = OnNewInstance(Last(call')).parser.images]_vars

\* a drawing of the second package, which has neither relationships nor media, gets
\* the image data of the first package
C26_ImageOfEarlierPackage ==
    [][(Len(call) = 1 /\ Len(call') = 2 /\ call[1].embeds = <<"rId1">>
            /\ call[1].rels # <<>> /\ call[1].media # <<>>
            /\ call'[2] = [rels |-> <<>>, media |-> <<>>, embeds |-> <<"rId1">>]) =>
          /\ outcome'.returned[2].elements[1].runs[1].data = call[1].media[1].value
          /\ outcome'.returned[2].elements[1].runs[1].data # Null]_vars

-----------------------------------------------------------------------------
(* C27: under any interleaving of the user's events with the suspension    *)
(* points of a handleConvert in flight, whenever handleDownload delivers a *)
(* blob, that blob is the conversion of the currently selected file and    *)
(* outputFilename is derived from that same file's name.                   *)

\* handleDownload calls downloadBlob
Delivers ==
    /\ ~ui.downloadHidden
    /\ convertedBlob # <<>>
    /\ delivered' = <<[blob |-> convertedBlob[1], filename |-> outputFilename]>>
    /\ delivered' # delivered

\* what converting the file gives
ConversionOf(file) == Blob(generate([elements |-> parse(file).elements]))

C27_DownloadIsOfSelectedFile ==
    [][Delivers =>
          /\ selectedFile # <<>>
          /\ ~parse(selectedFile).threw
          /\ delivered'[1].blob = ConversionOf(selectedFile)
          /\ delivered'[1].filename = replace(selectedFile[1].name, DotDocx, DotUdf)]_vars

\* what does hold: the name is the one derived from the file selected last, and the
\* blob is what generate() returned last, whatever file that call was for
C27_DownloadIsLastBlobUnderLastName ==
    [][Delivers =>
          /\ delivered'[1].blob = Blob(Current)
          /\ selectedFile # <<>> =>
                delivered'[1].filename = replace(selectedFile[1].name, DotDocx, DotUdf)]_vars

\* the blob of one file is delivered under the name derived from another file, selected
\* while the conversion was in flight
C27_BlobOfReplacedFile ==
    /\ delivered # <<>>
    /\ selectedFile # <<>>
    /\ ~parse(selectedFile).threw
    /\ delivered[1].filename = replace(selectedFile[1].name, DotDocx, DotUdf)
    /\ delivered[1].blob # ConversionOf(selectedFile)

-----------------------------------------------------------------------------
(* C28: at most one conversion is in flight at any time on the parser and  *)
(* generator instances of the page: from the moment handleConvert starts   *)
(* until it finishes, with success or in its catch block, no sequence of   *)
(* user events starts a second handleConvert that runs parse or generate   *)
(* (a hidden convert button takes no click).                               *)

\* handleConvert i has started and has not finished
InFlight(i) == conversions[i].at \notin {"done", "failed"}

C28_OneConversionInFlight ==
    /\ \A i \in 1..Len(conversions) : \A j \in 1..Len(conversions) :
          (InFlight(i) /\ InFlight(j)) => i = j
    /\ (\E i \in 1..Len(conversions) : InFlight(i)) => ui.convertBtnHidden

\* a second handleConvert is in parse after the first one has failed in its catch block
C28_Witness ==
    /\ Len(conversions) = 2
    /\ conversions[1].at = "failed"
    /\ conversions[2].at = "parse"
    /\ ui.convertBtnHidden

-----------------------------------------------------------------------------
(* C29: for every model whose text runs are non-empty, footnote labels and *)
(* footnote body texts being arbitrary strings, every content, tab and     *)
(* image element emitted by generate(), those of footnote sections         *)
(* included, has length at least 1.                                        *)

\* every text run of the blocks processed so far has a non-empty text
TextRunsNonEmpty ==
    \A i \in 1..Len(ModelParagraphs(document)) :
        \A j \in 1..Len(ModelParagraphs(document)[i].runs) :
            ModelParagraphs(document)[i].runs[j].type = "text"
                => ModelParagraphs(document)[i].runs[j].text # <<>>

C29_ElementsNotEmpty ==
    (pc \in {"loop", "done"} /\ TextRunsNonEmpty) =>
        \A i \in 1..Len(Leaves(elements)) : Leaves(elements)[i].length >= 1

\* the footnotes of the blocks processed so far have non-empty labels and bodies
FootnotesNonEmpty ==
    \A i \in 1..Len(ModelParagraphs(document)) :
        \A j \in 1..Len(ModelParagraphs(document)[i].runs) :
            ModelParagraphs(document)[i].runs[j].type = "footnoteRef"
                => /\ ModelParagraphs(document)[i].runs[j].id # <<>>
                   /\ ModelParagraphs(document)[i].runs[j].content # <<>>

\* what does hold: the elements have length at least 1 when no footnote has an empty
\* label or an empty body
C29_ElementsNotEmptyWithoutEmptyFootnotes ==
    (pc \in {"loop", "done"} /\ TextRunsNonEmpty /\ FootnotesNonEmpty) =>
        \A i \in 1..Len(Leaves(elements)) : Leaves(elements)[i].length >= 1

\* a footnote with an empty label and an empty body gives two elements of length 0
C29_EmptyFootnoteElements ==
    /\ pc = "done"
    /\ document = <<Paragraph(<<FootnoteRefRun(<<>>, <<>>)>>)>>
    /\ Leaves(elements)[1].length = 0
    /\ Last(Leaves(elements)).length = 0

====
